---------------------------- MODULE Spec2Model ----------------------------
(***************************************************************************)
(* A model of vbmc-vsphere: the RMCP/IPMI message codec, the RMCP+        *)
(* (LANPlus) receive path, the IPMI 2.0 simulator's session directory,     *)
(* the raw UDP command processor and the per-VM chassis server.            *)
(*                                                                         *)
(* Each component has its own specification (SpecCodec, SpecSim, ...);    *)
(* a specification keeps the variables of the other components at their   *)
(* idle values.                                                            *)
(*                                                                         *)
(* Go values: a []byte is a sequence of 0..255 (a nil and an empty slice   *)
(* are both << >>); a byte index i of the source is element i+1 here.      *)
(***************************************************************************)
EXTENDS Integers, Sequences, FiniteSets, TLC

VARIABLES
    \* ---- codec (ipmi/message.go, pkg/ipmi/lanplus.go) ----
    src,        \* where `data` comes from: "frame" (to be packed) or "raw" (a datagram)
    frame,      \* the Message handed to Pack
    data,       \* the bytes on the wire
    recv,       \* the Message receiver of Unpack
    lan,        \* the LANPlus receiver of ReceiveMessage
    cop,        \* the last codec call: "none", "Pack", "Unpack", "ReceiveMessage"
    res,        \* what that call returned
    \* ---- IPMI2Simulator (bmc/ipmi2_simulator.go) ----
    users,      \* s.users: username -> password
    sessions,   \* s.sessions: session id -> ipmi2Session
    mutex,      \* s.mutex: 0 when free, else the task holding the write lock
    pc,         \* where each handler task stands
    req,        \* the request each task is handling
    sid,        \* each task's local sessionID
    resp,       \* the completion code each task returned ("none" before it returns)
    challenged, \* history: a GetSessionChallenge has been answered
    closeCount, \* history: how often CloseSession was answered per id (capped at 2)
    issued,     \* history: the ids activations stored, in order
    lastAdd,    \* the last AddUser call: [username, err]
    \* ---- raw UDP server (package ipmi, Server with conn) ----
    rconn,      \* s.conn: "nil", "open" or "closed"
    rerr,       \* what the last Start returned: "none" or "listen"
    rbuf,       \* handleConnections' buffer, as far as it was ever written
    rnext,      \* datagrams read so far
    rpc,        \* where each handleIPMIRequest goroutine stands
    rlen,       \* n of the buffer[:n] each goroutine was handed
    rcmd,       \* each goroutine's local command: <<c>>, << >> before it is read
    rout,       \* the response each goroutine handed to WriteToUDP (<< >> if none)
    rcalls,     \* history: the hypervisor calls each goroutine made, in order
    \* ---- per-VM chassis server (package bmc / package ipmi Server) ----
    variant,    \* which Server source is built: "bmc" or "ipmi"
    builtin,    \* the handler table goipmi.NewSimulator returns
    ipConf,     \* the address is configured on the interface
    ipmiServer, \* s.ipmiServer: NoServer or [handlers, running]
    serr,       \* what the last Start or Stop returned
    creq,       \* the last ChassisControl request handled (NoRequest before)
    cresp,      \* the completion code it was answered with
    ccalls,     \* history: the hypervisor calls that handler made, in order
    cflag,      \* the power flag of that response (ChassisStatusResponse.PowerState)
    cpanic,     \* that handler panicked instead of answering
    vm,         \* the virtual machine in vCenter: [power, bootOrder]
    nic,        \* s.nic: the interface name, "" when none is configured
    spc,        \* where Stop stands: "idle", or "cleanup" before cleanupIP
    ipAdded,    \* history: the address on the interface was added by this Server
    startErr,   \* history: what the last Start returned ("never" before any)
    \* ---- fleet supervisor (main) ----
    mainSrc,    \* which main is built: "main.go" or "part_002"
    cfg,        \* cfg.Server.IPRange as configured: [start, end]
    nvms,       \* len(vms)
    startIP,    \* the bytes startIP points to
    endIP,      \* the bytes endIP points to
    currentIP,  \* the bytes currentIP, and every Server's ip, point to
    usedIPs,    \* the addresses marked in usedIPs
    servers,    \* per Server made so far: [assigned, pc, conf, bind]
    mpc,        \* where main stands: "range", "loop", "inc", "wait", "fatal"
    mj,         \* the byte incrementIP is at, in the loop's last statement
    \* ---- two raw UDP servers in one process ----
    pvm,        \* the power state of each instance's s.vm in vCenter
    pbuf,       \* each instance's handleConnections buffer
    plast,      \* each instance's remoteAddr of the last ReadFromUDP
    ptask,      \* each instance's handleIPMIRequest goroutines, in order
    \* ---- one LANPlus session and its connection (pkg/ipmi/lanplus.go) ----
    ls,         \* the LANPlus
    lconn,      \* l.conn: "nil", "open" or "closed"
    lwire,      \* history: the frames written to the connection, in order
    lret,       \* the last call: [op, err, d, before, n], n the calls so far
    \* ---- the IP database (package config, IPDB) ----
    VMToIP,     \* db.VMToIP
    dbFile,     \* the map in the database file, as last written by save
    callers,    \* per calling goroutine: [pc, op, ret]
    handler,    \* handleOperations: [at, k, result]
    committed,  \* history: the map after the operations that have returned
    invoked,    \* history: the operations called so far
    closed,     \* db.done is closed
    \* ---- shutdown of the raw servers started by main ----
    hsrc,       \* whose handlers answer: "raw" (package ipmi) or "bmc"
    ctxDone,    \* the process context is cancelled
    sconn,      \* per instance: the field s.conn, "nil" or "conn"
    socket,     \* per instance: the UDP socket, "none", "open" or "closed"
    startT,     \* per instance: where the goroutine running Start stands
    loopT,      \* per instance: where handleConnections stands
    hcalls,     \* the hypervisor calls of handlers: [inst, state, ctx]
    mainT,      \* main: [pc, i]
    \* ---- one Server (package bmc) and the addresses of its interface ----
    ifName,     \* s.nic
    ifAddrs,    \* the addresses on the interface
    ifBefore,   \* history: the addresses on the interface before the last Start
    ifUp,       \* the last Start returned nil and Stop has not been called
    ifLast      \* the last call: [op, err, found, added], of Stop: those of its Start

codecVars == <<src, frame, data, recv, lan, cop, res>>

simVars == <<users, sessions, mutex, pc, req, sid, resp, challenged, closeCount, issued,
    lastAdd>>

rawVars == <<rconn, rerr, rbuf, rnext, rpc, rlen, rcmd, rout, rcalls>>

srvVars == <<variant, builtin, ipConf, ipmiServer, serr, creq, cresp, ccalls,
             cflag, cpanic, vm, nic, spc, ipAdded, startErr>>

fleetVars == <<mainSrc, cfg, nvms, startIP, endIP, currentIP, usedIPs, servers,
               mpc, mj>>

pairVars == <<pvm, pbuf, plast, ptask>>

lanVars == <<ls, lconn, lwire, lret>>

dbVars == <<VMToIP, dbFile, callers, handler, committed, invoked, closed>>

shutVars == <<hsrc, ctxDone, sconn, socket, startT, loopT, hcalls, mainT>>

nicVars == <<ifName, ifAddrs, ifBefore, ifUp, ifLast>>

vars == <<codecVars, simVars, rawVars, srvVars, fleetVars, pairVars, lanVars,
          dbVars, shutVars, nicVars>>

\* what the actions of one component leave alone: the other components
notCodec == <<simVars, rawVars, srvVars, fleetVars, pairVars, lanVars,
    dbVars, shutVars, nicVars>>

notSim == <<codecVars, rawVars, srvVars, fleetVars, pairVars, lanVars,
    dbVars, shutVars, nicVars>>

notRaw == <<codecVars, simVars, srvVars, fleetVars, pairVars, lanVars,
    dbVars, shutVars, nicVars>>

notSrv == <<codecVars, simVars, rawVars, fleetVars, pairVars, lanVars,
    dbVars, shutVars, nicVars>>

notFleet == <<codecVars, simVars, rawVars, srvVars, pairVars, lanVars,
    dbVars, shutVars, nicVars>>

notPair == <<codecVars, simVars, rawVars, srvVars, fleetVars, lanVars,
    dbVars, shutVars, nicVars>>

notLan == <<codecVars, simVars, rawVars, srvVars, fleetVars, pairVars,
    dbVars, shutVars, nicVars>>

notDB == <<codecVars, simVars, rawVars, srvVars, fleetVars, pairVars, lanVars,
    shutVars, nicVars>>

notShut == <<codecVars, simVars, rawVars, srvVars, fleetVars, pairVars, lanVars,
    dbVars, nicVars>>

notNic == <<codecVars, simVars, rawVars, srvVars, fleetVars, pairVars, lanVars,
    dbVars, shutVars>>

----------------------------------------------------------------------------
(* Bounds of the model *)

\* longest Data / payload, in bytes, of the frames the model builds
MaxData == 2

\* concurrent handler invocations of one simulator
NumTasks == 2

\* sessions one run activates
MaxSessions == 2

\* datagrams the raw server reads in one run
MaxDatagrams == 2

\* the most virtual machines GetVMs returns
MaxVMs == 2

\* the most addresses a configured range holds
MaxSpan == 3

\* the most datagrams the two instances read, together
MaxRequests == 2

\* the most calls made on one LANPlus session
MaxCalls == 3

\* the most operations called on the IP database
MaxOps == 3

----------------------------------------------------------------------------
(* Bytes and fixed-width integers *)

Byte(x) == x % 256

\* A uint32 is the pair <<hi, lo>> of its 16-bit halves (value hi * 2^16 + lo):
\* the model checker's integers are 32-bit signed and cannot hold it whole.
W32(n) == <<n \div 65536, n % 65536>>

\* byte(x >> 24), byte(x >> 16), byte(x >> 8), byte(x)
BE32(x) == <<x[1] \div 256, x[1] % 256, x[2] \div 256, x[2] % 256>>

\* uint32(b0)<<24 | uint32(b1)<<16 | uint32(b2)<<8 | uint32(b3)
FromBE32(b0, b1, b2, b3) == <<b0 * 256 + b1, b2 * 256 + b3>>

\* binary.LittleEndian.PutUint32 / Uint32 / PutUint16 / Uint16
LE32(x) == <<x[2] % 256, x[2] \div 256, x[1] % 256, x[1] \div 256>>

FromLE32(b0, b1, b2, b3) == <<b3 * 256 + b2, b1 * 256 + b0>>

LE16(x) == <<Byte(x), Byte(x \div 256)>>

FromLE16(b0, b1) == b0 + b1 * 256

----------------------------------------------------------------------------
(* ipmi/message.go: Message, Pack, Unpack *)

\* the zero value of Message (new(Message))
ZeroMessage ==
    [Version |-> 0, Reserved |-> 0, Seq |-> 0, Class |-> 0, AuthType |-> 0,
     SessionID |-> W32(0), Sequence |-> W32(0), Command |-> 0, Data |-> << >>]

\* Message.Pack: RMCP header, session header (auth type, five reserved
\* bytes, the session id big-endian), the command byte, the data.
\* m.Sequence is not written.
Pack(m) ==
    <<m.Version, m.Reserved, m.Seq, m.Class>>
        \o <<m.AuthType, 0, 0, 0, 0, 0>> \o BE32(m.SessionID)
        \o <<m.Command>> \o m.Data

\* data[i] of a Go slice: an index at or beyond len(data) panics
Rd(d, i) == IF i < Len(d) THEN d[i + 1] ELSE -1

\* data[15:]
Tail15(d) == IF Len(d) > 15 THEN SubSeq(d, 16, Len(d)) ELSE << >>

\* the length guard that opens Unpack
UnpackTooShort_rmcpOnly(d) == Len(d) < 4
UnpackTooShort(d) == Len(d) < 15

VersionOK(v) == v = 6

ClassOK(c) == c = 7

\* a decode result whose highest read (hi = index + 1) is beyond the slice
\* is a run-time panic, not a return
Checked(r, n) == IF r.hi > n THEN [r EXCEPT !.err = "panic"] ELSE r

\* Message.Unpack(data) on receiver m: the error returned ("nil" for none),
\* the receiver afterwards, and hi, the number of leading bytes of data the
\* call has indexed.
Unpack(m, d) ==
    IF UnpackTooShort(d)
    THEN [err |-> "message too short", m |-> m, hi |-> 0]
    ELSE
    LET m1 == [m EXCEPT !.Version = Rd(d, 0), !.Reserved = Rd(d, 1),
                        !.Seq = Rd(d, 2), !.Class = Rd(d, 3)]
    IN  Checked(
        IF ~VersionOK(m1.Version)
        THEN [err |-> "unsupported RMCP version", m |-> m1, hi |-> 4]
        ELSE IF ~ClassOK(m1.Class)
        THEN [err |-> "unsupported message class", m |-> m1, hi |-> 4]
        ELSE
        LET m2 == [m1 EXCEPT !.AuthType = Rd(d, 4),
                             !.SessionID = FromBE32(Rd(d, 10), Rd(d, 11),
                                                    Rd(d, 12), Rd(d, 13))]
        IN  IF Len(d) < 15
            THEN [err |-> "message too short for command", m |-> m2, hi |-> 14]
            ELSE [err |-> "nil",
                  m |-> [m2 EXCEPT !.Command = Rd(d, 14),
                                   !.Data = IF Len(d) > 15 THEN Tail15(d) ELSE m.Data],
                  hi |-> IF Len(d) > 15 THEN Len(d) ELSE 15],
        Len(d))

----------------------------------------------------------------------------
(* pkg/ipmi/lanplus.go: LANPlus.ReceiveMessage *)

\* NewLANPlus(): authType HMAC-SHA1, priv Administrator, nothing else set
NewLANPlus ==
    [active |-> FALSE, authenticated |-> FALSE, sessionID |-> W32(0),
     sequenceNum |-> W32(0), authType |-> 1, password |-> 0]

\* buf[i] of the 1024-byte read buffer holding datagram d: the bytes beyond
\* the n = Len(d) received ones are the zeroes make() left there
B(d, i) == IF i < Len(d) THEN d[i + 1] ELSE 0

\* buf[a:b]
Slice(d, a, b) == [i \in 1..(b - a) |-> B(d, a + i - 1)]

RECURSIVE SumBytes(_)
SumBytes(s) == IF s = << >> THEN 0 ELSE s[1] + SumBytes(Tail(s))

\* generateAuthCode: HMAC-SHA1 of the bytes under the password; the model
\* keeps what the code relies on (20 bytes, a function of key and bytes)
\* and stands a keyed checksum in for the hash
generateAuthCode(password, bytes) ==
    [i \in 1..20 |-> Byte(SumBytes(bytes) + 31 * password + i)]

\* the length guard of ReceiveMessage: RMCP header (4) + RMCP+ header (12)
RecvTooShort(n) == n < 16

\* "Verify RMCP header"
HeaderOK_and(b0, b3) == ~(b0 # 6 /\ b3 # 7)
HeaderOK(b0, b3) == ~(b0 # 6 \/ b3 # 7)

\* "payloadEnd > n" rejects
PayloadFits(payloadEnd, n) == ~(payloadEnd > n)

\* "Verify authentication if required"
AuthRequired(authType, l) == authType # 0 /\ l.authenticated

\* LANPlus.ReceiveMessage on receiver l when conn.Read delivers datagram d
\* (readOK) or fails: the error returned ("nil" for none), the payload
\* returned, the receiver afterwards, and hi, the number of leading bytes
\* of buf the call has used.
ReceiveMessage(l, d, readOK) ==
    LET n == Len(d)
        Fail(e, l1, h) == [err |-> e, payload |-> << >>, l |-> l1, hi |-> h]
    IN
    IF ~l.active THEN Fail("session not active", l, 0)
    ELSE IF ~readOK THEN Fail("failed to read response", l, 0)
    ELSE IF RecvTooShort(n) THEN Fail("response too short", l, 0)
    ELSE IF ~HeaderOK(B(d, 0), B(d, 3)) THEN Fail("invalid RMCP header", l, 4)
    ELSE IF B(d, 5) # 0 THEN Fail("unexpected payload type", l, 6)
    ELSE
    LET authType == B(d, 4)
        sessionID == FromLE32(B(d, 6), B(d, 7), B(d, 8), B(d, 9))
        l1 == [l EXCEPT !.sequenceNum = FromLE32(B(d, 10), B(d, 11), B(d, 12), B(d, 13))]
        payloadLen == FromLE16(B(d, 14), B(d, 15))
        payloadEnd == 16 + payloadLen
    IN
    IF sessionID # l.sessionID THEN Fail("invalid session ID", l1, 16)
    ELSE IF ~PayloadFits(payloadEnd, n)
    THEN Fail("payload length exceeds message size", l1, 16)
    ELSE IF payloadEnd > 1024 THEN Fail("panic", l1, payloadEnd)
    ELSE
    LET payload == Slice(d, 16, payloadEnd) IN
    IF AuthRequired(authType, l)
    THEN IF payloadEnd + 20 > n
         THEN Fail("message too short for authentication code", l1, payloadEnd)
         ELSE IF Slice(d, payloadEnd, payloadEnd + 20)
                    # generateAuthCode(l.password, Slice(d, 0, payloadEnd))
         THEN Fail("authentication failed", l1, payloadEnd + 20)
         ELSE [err |-> "nil", payload |-> payload, l |-> l1, hi |-> payloadEnd + 20]
    ELSE [err |-> "nil", payload |-> payload, l |-> l1, hi |-> payloadEnd]

----------------------------------------------------------------------------
(* The codec specification: inputs drawn from bounded sets, the codec      *)
(* functions applied to them                                               *)

\* byte strings of length 0..MaxData over the two extreme byte values
DataSet == UNION {[1..k -> {0, 255}] : k \in 0..MaxData}

\* the valid frames handed to Pack: Version 0x06, Class 0x07, the other
\* fields over their extreme and typical values
ValidFrames ==
    [Version : {6}, Reserved : {0, 255}, Seq : {0, 255}, Class : {7},
     AuthType : {0, 2}, SessionID : {W32(0), <<258, 772>>, <<65535, 65535>>},
     Sequence : {W32(0), W32(1)},
     Command : {1, 58}, Data : DataSet]

\* the session a datagram is received on; the decode path of
\* ReceiveMessage is a function of the receiver, so the receiver is an
\* input like the datagram (Connect itself never sets active)
LanInputs ==
    {[NewLANPlus EXCEPT !.active = a, !.authenticated = au, !.sessionID = W32(1),
                        !.password = 7] : a \in BOOLEAN, au \in BOOLEAN}

\* an RMCP+ frame as a peer would send it: header fields, a declared
\* payload length plen, MaxData payload bytes, and a trailer
LanFrame(ver, cls, auth, ptype, sessID, plen, trailer) ==
    LET head == <<ver, 0, 0, cls, auth, ptype>> \o LE32(sessID) \o LE32(W32(5)) \o LE16(plen)
        body == [i \in 1..MaxData |-> 170 + i]
        pre  == head \o body
        code == generateAuthCode(7, Slice(pre, 0, 16 + plen))
    IN  CASE trailer = "none"  -> pre
          [] trailer = "wrong" -> pre \o [i \in 1..20 |-> 0]
          [] trailer = "good"  -> Slice(pre, 0, 16 + plen) \o code

LanFrames ==
    {LanFrame(ver, cls, auth, ptype, sessID, plen, tr) :
        ver \in {6, 5}, cls \in {7, 6}, auth \in {0, 1}, ptype \in {0, 3},
        sessID \in {W32(1), W32(2)}, plen \in 0..(MaxData + 1), tr \in {"none", "wrong", "good"}}

\* the datagrams: every prefix of every such frame
RawBuffers == UNION {{SubSeq(fr, 1, n) : n \in 0..Len(fr)} : fr \in LanFrames}

NoResult == [err |-> "none"]

\* a receiver that still holds an earlier decode
UsedMessage ==
    [Version |-> 6, Reserved |-> 0, Seq |-> 1, Class |-> 7, AuthType |-> 2,
     SessionID |-> W32(9), Sequence |-> W32(0), Command |-> 2, Data |-> <<9>>]

CodecInit ==
    /\ cop = "none"
    /\ res = NoResult
    /\ \/ /\ src = "frame"
          /\ frame \in ValidFrames
          /\ data = << >>
          /\ recv = ZeroMessage
          /\ lan = NewLANPlus
       \/ /\ src = "raw"
          /\ frame = ZeroMessage
          /\ data \in RawBuffers
          /\ recv \in {ZeroMessage, UsedMessage}
          /\ lan \in LanInputs

\* wire := f.Pack()
DoPack ==
    /\ src = "frame" /\ cop = "none"
    /\ data' = Pack(frame)
    /\ cop' = "Pack"
    /\ UNCHANGED <<src, frame, recv, lan, res, notCodec>>

\* recv.Unpack(wire), on packed bytes or on a datagram; res keeps the
\* receiver as it was before the call
DoUnpack ==
    /\ \/ src = "frame" /\ cop = "Pack"
       \/ src = "raw" /\ cop = "none"
    /\ res' = [Unpack(recv, data) EXCEPT !.m = recv]
    /\ recv' = Unpack(recv, data).m
    /\ cop' = "Unpack"
    /\ UNCHANGED <<src, frame, data, lan, notCodec>>

\* l.ReceiveMessage() when the connection delivers the datagram or fails;
\* res keeps the receiver as it was before the call
DoReceive ==
    /\ src = "raw" /\ cop = "none"
    /\ \E readOK \in BOOLEAN :
          /\ res' = [ReceiveMessage(lan, data, readOK) EXCEPT !.l = lan]
          /\ lan' = ReceiveMessage(lan, data, readOK).l
    /\ cop' = "ReceiveMessage"
    /\ UNCHANGED <<src, frame, data, recv, notCodec>>

CodecNext == DoPack \/ DoUnpack \/ DoReceive

\* the codec at rest, in the specifications of the other components
CodecIdle ==
    /\ src = "raw" /\ frame = ZeroMessage /\ data = << >> /\ recv = ZeroMessage
    /\ lan = NewLANPlus /\ cop = "none" /\ res = NoResult

----------------------------------------------------------------------------
(* Claims about the codec *)

\* C1 (as claimed): for every valid frame f, Unpack(Pack(f)) succeeds and
\* the decoded Message equals f in every field.
C1_RoundTrip ==
    (src = "frame" /\ cop = "Unpack") => (res.err = "nil" /\ recv = frame)

\* C2: a buffer shorter than the minimum header (15 bytes for Unpack, 16
\* for ReceiveMessage) always fails to decode, and no decode of any buffer
\* uses a byte at or beyond the buffer's length.
C2_ShortFailsNoOverread ==
    /\ cop = "Unpack" =>
          /\ res.err # "panic"
          /\ res.hi <= Len(data)
          /\ Len(data) < 15 => res.err # "nil"
    /\ cop = "ReceiveMessage" =>
          /\ res.err # "panic"
          /\ res.hi <= Len(data)
          /\ Len(data) < 16 => res.err # "nil"

\* C2 witness: a 14-byte datagram was refused by Unpack, and a 15-byte one
\* by an active session's ReceiveMessage would be the same case; the state
\* below is the first.
C2_Witness ==
    cop = "Unpack" /\ src = "raw" /\ Len(data) = 14 /\ res.err = "message too short"

\* the three conditions of C3, read off the datagram
BadVersion(d) == Len(d) >= 1 /\ d[1] # 6

BadClass(d) == Len(d) >= 4 /\ d[4] # 7

\* the declared payload length of an RMCP+ datagram exceeds what arrived
Overlong(d) == Len(d) >= 16 /\ 16 + FromLE16(d[15], d[16]) > Len(d)

\* C3: decode fails when the RMCP version is not 0x06, the class is not
\* 0x07, or the declared payload length exceeds the bytes received, and
\* then hands the caller no frame (the receiver's session header, command
\* and data are as before) and no payload.
C3_RejectsBadHeader ==
    /\ (cop = "Unpack" /\ (BadVersion(data) \/ BadClass(data))) =>
          /\ res.err \notin {"nil", "panic"}
          /\ recv.AuthType = res.m.AuthType /\ recv.SessionID = res.m.SessionID
          /\ recv.Command = res.m.Command /\ recv.Data = res.m.Data
    /\ (cop = "ReceiveMessage"
            /\ (BadVersion(data) \/ BadClass(data) \/ Overlong(data))) =>
          /\ res.err \notin {"nil", "panic"}
          /\ res.payload = << >>

\* C3 witness: an active session refused a datagram whose header is right
\* and whose declared payload is longer than what arrived.
C3_Witness ==
    /\ cop = "ReceiveMessage" /\ res.l.active
    /\ ~BadVersion(data) /\ ~BadClass(data) /\ Overlong(data)
    /\ res.err = "payload length exceeds message size"

----------------------------------------------------------------------------
(* bmc/ipmi2_simulator.go: IPMI2Simulator, its session directory and the   *)
(* handlers it registers.  Handler invocations are tasks that may run      *)
(* concurrently; s.mutex is the only synchronisation.                      *)

Tasks == 1..NumTasks

\* the session ids a CloseSession request may name: issued or never issued
SessionIds == 1..(MaxSessions + 1)

\* goipmi.CommandCompleted
CommandCompleted == 0

\* CompletionCodeInvalidSession
InvalidSession == 203

\* len(m) of a Go map
MapLen(m) == Cardinality(DOMAIN m)

\* m[k] = v on a Go map
MapSet(m, k, v) == [x \in DOMAIN m \cup {k} |-> IF x = k THEN v ELSE m[x]]

\* NewIPMI2Simulator: the default admin user, no session
SimInit ==
    /\ users = [u \in {"admin"} |-> "password"]
    /\ sessions = << >>
    /\ mutex = 0
    /\ pc = [t \in Tasks |-> "idle"]
    /\ req = [t \in Tasks |-> [cmd |-> "none", id |-> 0, afterChallenge |-> FALSE]]
    /\ sid = [t \in Tasks |-> 0]
    /\ resp = [t \in Tasks |-> "none"]
    /\ challenged = FALSE
    /\ closeCount = [i \in SessionIds |-> 0]
    /\ issued = << >>
    /\ lastAdd = [username |-> "", err |-> FALSE]

\* activations begun or finished so far
Activations == Len(issued) + Cardinality({t \in Tasks : pc[t] \in {"act_lock", "act_id", "act_store", "act_ret"}})

\* the simulator hands a request of network function App to the handler
\* registered for its command; task t runs it
Dispatch(t, cmd, id) ==
    /\ pc[t] = "idle"
    /\ cmd = "ActivateSession" => Activations < MaxSessions
    /\ req' = [req EXCEPT ![t] = [cmd |-> cmd, id |-> id, afterChallenge |-> challenged]]
    /\ pc' = [pc EXCEPT ![t] =
                 CASE cmd = "GetAuthCapabilities" -> "authcap"
                   [] cmd = "GetSessionChallenge" -> "challenge"
                   [] cmd = "ActivateSession"     -> "act_lock"
                   [] cmd = "CloseSession"        -> "close"]
    /\ sid' = [sid EXCEPT ![t] = 0]
    /\ resp' = [resp EXCEPT ![t] = "none"]
    /\ UNCHANGED <<users, sessions, mutex, challenged, closeCount, issued, lastAdd, notSim>>

handleGetAuthCapabilities(t) ==
    /\ pc[t] = "authcap"
    /\ resp' = [resp EXCEPT ![t] = CommandCompleted]
    /\ pc' = [pc EXCEPT ![t] = "idle"]
    /\ UNCHANGED <<users, sessions, mutex, req, sid, challenged, closeCount, issued, lastAdd, notSim>>

\* "For simulator, we accept any challenge request"
handleGetSessionChallenge(t) ==
    /\ pc[t] = "challenge"
    /\ resp' = [resp EXCEPT ![t] = CommandCompleted]
    /\ pc' = [pc EXCEPT ![t] = "idle"]
    /\ challenged' = TRUE
    /\ UNCHANGED <<users, sessions, mutex, req, sid, closeCount, issued, lastAdd, notSim>>

\* s.mutex.Lock() of handleActivateSession
Lock_noMutex(t) ==
    /\ pc[t] = "act_lock"
    /\ mutex' = t
    /\ pc' = [pc EXCEPT ![t] = "act_id"]
    /\ UNCHANGED <<users, sessions, req, sid, resp, challenged, closeCount, issued, lastAdd, notSim>>
Lock(t) ==
    /\ pc[t] = "act_lock"
    /\ mutex = 0
    /\ mutex' = t
    /\ pc' = [pc EXCEPT ![t] = "act_id"]
    /\ UNCHANGED <<users, sessions, req, sid, resp, challenged, closeCount, issued, lastAdd, notSim>>

\* sessionID := uint32(len(s.sessions) + 1)
NextSessionID(m) == MapLen(m) + 1

ActivateId(t) ==
    /\ pc[t] = "act_id"
    /\ sid' = [sid EXCEPT ![t] = NextSessionID(sessions)]
    /\ pc' = [pc EXCEPT ![t] = "act_store"]
    /\ UNCHANGED <<users, sessions, mutex, req, resp, challenged, closeCount, issued, lastAdd, notSim>>

\* &ipmi2Session{ID: sessionID, Username: "admin", Privilege: 0x04}
NewSession_user(id) == [ID |-> id, Username |-> "admin", Privilege |-> 2]
NewSession(id) == [ID |-> id, Username |-> "admin", Privilege |-> 4]

\* s.sessions[sessionID] = &ipmi2Session{...}
ActivateStore(t) ==
    /\ pc[t] = "act_store"
    /\ sessions' = MapSet(sessions, sid[t], NewSession(sid[t]))
    /\ issued' = Append(issued, sid[t])
    /\ pc' = [pc EXCEPT ![t] = "act_ret"]
    /\ UNCHANGED <<users, mutex, req, sid, resp, challenged, closeCount, lastAdd, notSim>>

\* return goipmi.CommandCompleted, and the deferred s.mutex.Unlock()
ActivateReturn(t) ==
    /\ pc[t] = "act_ret"
    /\ mutex' = 0
    /\ resp' = [resp EXCEPT ![t] = CommandCompleted]
    /\ pc' = [pc EXCEPT ![t] = "idle"]
    /\ UNCHANGED <<users, sessions, req, sid, challenged, closeCount, issued, lastAdd, notSim>>

\* handleCloseSession: logs and returns CommandCompleted
handleCloseSession_strict(t) ==
    /\ pc[t] = "close"
    /\ resp' = [resp EXCEPT ![t] =
                   IF req[t].id \in DOMAIN sessions THEN CommandCompleted ELSE InvalidSession]
    /\ pc' = [pc EXCEPT ![t] = "idle"]
    /\ closeCount' = [closeCount EXCEPT ![req[t].id] = IF @ < 2 THEN @ + 1 ELSE 2]
    /\ UNCHANGED <<users, sessions, mutex, req, sid, challenged, issued, lastAdd, notSim>>
handleCloseSession(t) ==
    /\ pc[t] = "close"
    /\ resp' = [resp EXCEPT ![t] = CommandCompleted]
    /\ pc' = [pc EXCEPT ![t] = "idle"]
    /\ closeCount' = [closeCount EXCEPT ![req[t].id] = IF @ < 2 THEN @ + 1 ELSE 2]
    /\ UNCHANGED <<users, sessions, mutex, req, sid, challenged, issued, lastAdd, notSim>>

\* the user names and the password AddUser is called with
UserNames == {"admin", "operator"}

NewPassword == "secret"

\* an AddUser that stores the password whether or not the user exists
AddUser_overwrite(username, password) ==
    /\ mutex = 0
    /\ users' = MapSet(users, username, password)
    /\ lastAdd' = [username |-> username, err |-> FALSE]
    /\ UNCHANGED <<sessions, mutex, pc, req, sid, resp, challenged, closeCount, issued>>
    /\ UNCHANGED notSim

\* AddUser: under s.mutex, an error if the user exists, else
\* s.users[username] = password
AddUser(username, password) ==
    /\ mutex = 0
    /\ IF username \in DOMAIN users
       THEN /\ lastAdd' = [username |-> username, err |-> TRUE]
            /\ UNCHANGED users
       ELSE /\ users' = MapSet(users, username, password)
            /\ lastAdd' = [username |-> username, err |-> FALSE]
    /\ UNCHANGED <<sessions, mutex, pc, req, sid, resp, challenged, closeCount, issued>>
    /\ UNCHANGED notSim

AddUserStep == \E username \in UserNames : AddUser(username, NewPassword)

\* what the task running a handler may do next
TaskStep(t) ==
    \/ \E cmd \in {"GetAuthCapabilities", "GetSessionChallenge", "ActivateSession"} :
           Dispatch(t, cmd, 0)
    \/ \E id \in SessionIds : Dispatch(t, "CloseSession", id)
    \/ handleGetAuthCapabilities(t)
    \/ handleGetSessionChallenge(t)
    \/ Lock(t)
    \/ ActivateId(t)
    \/ ActivateStore(t)
    \/ ActivateReturn(t)
    \/ handleCloseSession(t)

SimNext == \E t \in Tasks : TaskStep(t)

\* the handlers, one request at a time, and callers of AddUser
UsersNext == TaskStep(1) \/ AddUserStep

\* the simulator at rest, in the specifications of the other components
SimIdle == SimInit

----------------------------------------------------------------------------
(* Claims about the simulator's sessions *)

\* task t takes the step from one handler position to the next
Step(t, from, to) == pc[t] = from /\ pc'[t] = to

\* C4: every ActivateSession that follows a GetSessionChallenge returns
\* CommandCompleted and adds to the session set exactly one new session,
\* bound to user "admin" with privilege 0x04; the sessions already there
\* stay as they are.
C4_ActivateAddsAdmin ==
    [][\A t \in Tasks : req[t].afterChallenge =>
          /\ Step(t, "act_store", "act_ret") =>
                \E id \in DOMAIN sessions' \ DOMAIN sessions :
                    /\ DOMAIN sessions' = DOMAIN sessions \cup {id}
                    /\ sessions'[id].Username = "admin"
                    /\ sessions'[id].Privilege = 4
                    /\ \A k \in DOMAIN sessions : sessions'[k] = sessions[k]
          /\ Step(t, "act_ret", "idle") =>
                resp'[t] = CommandCompleted /\ sessions' = sessions]_vars

\* C4 witness: an ActivateSession received after a challenge has returned
\* CommandCompleted and its session is in the set.
C4_Witness ==
    \E t \in Tasks :
        /\ pc[t] = "idle" /\ req[t].cmd = "ActivateSession" /\ req[t].afterChallenge
        /\ resp[t] = CommandCompleted /\ sid[t] \in DOMAIN sessions

\* C5: CloseSession returns CommandCompleted for any id (active, already
\* closed, never issued); closing an unknown or already-closed id leaves
\* the session set and the user directory unchanged, so a second close
\* changes nothing the first left.
C5_CloseIdempotent ==
    [][\A t \in Tasks : Step(t, "close", "idle") =>
          /\ resp'[t] = CommandCompleted
          /\ (req[t].id \notin DOMAIN sessions \/ closeCount[req[t].id] >= 1) =>
                (sessions' = sessions /\ users' = users)]_vars

\* C5 witness: one id has been closed twice and a never-issued id has been
\* closed, each answered CommandCompleted.
C5_Witness ==
    /\ \E id \in SessionIds : closeCount[id] = 2
    /\ \E id \in SessionIds : closeCount[id] >= 1 /\ id \notin DOMAIN sessions
    /\ \E t \in Tasks :
          pc[t] = "idle" /\ req[t].cmd = "CloseSession" /\ resp[t] = CommandCompleted

\* C6 (as claimed): once CloseSession has been handled for an activated
\* session, that session is no longer in the session set.
C6_CloseDestroys ==
    [][\A t \in Tasks :
          (Step(t, "close", "idle") /\ req[t].id \in DOMAIN sessions) =>
              req[t].id \notin DOMAIN sessions']_vars

\* C7: session ids are unique within an instance under every interleaving
\* of ActivateSession and CloseSession: no two activations were given
\* the same id, every activation has its own entry (none was overwritten),
\* every key equals the ID stored under it, and an entry once stored never
\* changes.
C7_UniqueIds ==
    /\ [](/\ \A i, j \in 1..Len(issued) : i # j => issued[i] # issued[j]
          /\ MapLen(sessions) = Len(issued)
          /\ \A k \in DOMAIN sessions : sessions[k].ID = k)
    /\ [][\A k \in DOMAIN sessions :
             k \in DOMAIN sessions' /\ sessions'[k] = sessions[k]]_vars

\* C7 witness: two activations have completed, both sessions are live,
\* and a CloseSession for one of them has been answered.
C7_Witness ==
    /\ Len(issued) = 2 /\ MapLen(sessions) = 2
    /\ \E id \in DOMAIN sessions : closeCount[id] >= 1
    /\ \A t \in Tasks : pc[t] = "idle"

\* C31: the bootstrap administrator exists in every reachable state: "admin"
\* is in the user directory from construction on, with the secret given at
\* construction, whatever AddUser, ActivateSession and CloseSession calls
\* are made.
C31_AdminKept ==
    "admin" \in DOMAIN users /\ users["admin"] = "password"

\* C31 witness: AddUser("admin", ...) has returned its error after another
\* user was added, a session was activated and a CloseSession was answered
C31_Witness ==
    /\ lastAdd = [username |-> "admin", err |-> TRUE]
    /\ "operator" \in DOMAIN users
    /\ sessions # << >>
    /\ \E id \in SessionIds : closeCount[id] >= 1

\* C32: the session lifecycle is NoSession, ChallengeIssued, Activated,
\* Closed: an ActivateSession stores a session only when a
\* GetSessionChallenge was answered before the request came.
C32_ChallengeFirst ==
    [][\A t \in Tasks :
          Step(t, "act_store", "act_ret") => req[t].afterChallenge]_vars

----------------------------------------------------------------------------
(* The hypervisor client (package vsphere)                                 *)
(*                                                                         *)
(* A call reaches vCenter and either succeeds or returns an error; which,  *)
(* is the environment's choice.  A call is recorded as [op, arg, ok].      *)

\* InvalidCommand: the completion code 0xc1
InvalidCommand == 193

\* Unspecified: the completion code 0xff
Unspecified == 255

HvCall(op, arg, ok) == [op |-> op, arg |-> arg, ok |-> ok]

\* what vCenter answers to one handler: whether each operation succeeds,
\* and the power state it reports
HvOutcomes ==
    [off : BOOLEAN, on : BOOLEAN, reset : BOOLEAN, get : BOOLEAN,
     boot : BOOLEAN, power : {"poweredOn", "poweredOff"}]

\* the outcomes that differ only in what one handler can observe: the
\* power operations, the power query, the boot order change
HvPowerOutcomes == {h \in HvOutcomes : h.get /\ h.boot /\ h.power = "poweredOn"}

HvQueryOutcomes ==
    {h \in HvOutcomes : h.off /\ h.on /\ h.reset /\ h.boot /\ h.power = "poweredOn"}

HvBootOutcomes ==
    {h \in HvOutcomes : h.off /\ h.on /\ h.reset /\ h.get /\ h.power = "poweredOn"}

GetVMPowerState(hv) == HvCall("GetVMPowerState", "", hv.get)

PowerOnVM(hv) == HvCall("PowerOnVM", "", hv.on)

PowerOffVM(hv) == HvCall("PowerOffVM", "", hv.off)

SetNextBoot(hv, device) == HvCall("SetNextBoot", device, hv.boot)

----------------------------------------------------------------------------
(* The raw UDP server: Start, handleConnections, handleIPMIRequest,        *)
(* processIPMICommand, Stop                                                *)

RawTasks == 1..MaxDatagrams

\* byte i (from 1) of the 1024-byte buffer: zero where nothing was written
Buf(b, i) == IF i <= Len(b) THEN b[i] ELSE 0

\* ReadFromUDP(buffer) of the datagram d: it overwrites the first len(d)
\* bytes and leaves the rest of the buffer as it was
WriteBuf(b, d) ==
    [i \in 1..(IF Len(b) > Len(d) THEN Len(b) ELSE Len(d)) |->
        IF i <= Len(d) THEN d[i] ELSE b[i]]

\* buffer[:n] as a goroutine sees it now: a view of the shared buffer
View(b, n) == [i \in 1..n |-> Buf(b, i)]

\* the commands processIPMICommand has a case for
RawCommands == {1, 2, 3, 4, 8}

\* the datagrams a client sends: too short ones, and a command byte at
\* offset 3 followed by one parameter byte
RawDatagrams ==
    {<< >>, <<6, 0, 255>>, <<6, 0, 255, 5>>}
    \cup {<<6, 0, 255, c, p>> : c \in RawCommands \cup {5}, p \in {0, 132, 7}}

Reply(response, calls) == [response |-> response, calls |-> calls]

\* case 0x08 of processIPMICommand, after the length check
setBootDevice(params, hv) ==
    LET dev == params[1] % 64
        bootDevice == CASE dev = 4 -> "hdd"
                        [] dev = 20 -> "cdrom"
                        [] dev = 32 -> "pxe"
                        [] dev = 60 -> "floppy"
                        [] OTHER -> "unsupported"
    IN  IF dev = 0 THEN Reply(<<0>>, << >>)
        ELSE IF bootDevice = "unsupported" THEN Reply(<<1>>, << >>)
        ELSE IF ~hv.boot
             THEN Reply(<<1>>, <<SetNextBoot(hv, bootDevice)>>)
             ELSE Reply(<<0>>, <<SetNextBoot(hv, bootDevice)>>)

\* the default case of processIPMICommand
processDefault == Reply(<<1>>, << >>)

processIPMICommand(command, params, hv) ==
    CASE command = 1 -> Reply(<<0, 1, 0, 0>>, << >>)
      [] command = 2 ->
            IF ~hv.get THEN Reply(<<1>>, <<GetVMPowerState(hv)>>)
            ELSE IF hv.power = "poweredOn"
                 THEN Reply(<<0, 1>>, <<GetVMPowerState(hv)>>)
                 ELSE Reply(<<0, 0>>, <<GetVMPowerState(hv)>>)
      [] command = 3 ->
            IF ~hv.on THEN Reply(<<1>>, <<PowerOnVM(hv)>>)
            ELSE Reply(<<0>>, <<PowerOnVM(hv)>>)
      [] command = 4 ->
            IF ~hv.off THEN Reply(<<1>>, <<PowerOffVM(hv)>>)
            ELSE Reply(<<0>>, <<PowerOffVM(hv)>>)
      [] command = 8 ->
            IF Len(params) < 1 THEN Reply(<<1>>, << >>)
            ELSE setBootDevice(params, hv)
      [] OTHER -> processDefault

RawInit ==
    /\ rconn = "nil"
    /\ rerr = "none"
    /\ rbuf = << >>
    /\ rnext = 0
    /\ rpc = [g \in RawTasks |-> "free"]
    /\ rlen = [g \in RawTasks |-> 0]
    /\ rcmd = [g \in RawTasks |-> << >>]
    /\ rout = [g \in RawTasks |-> << >>]
    /\ rcalls = [g \in RawTasks |-> << >>]

\* Server.Start: ListenUDP succeeds or fails
RawStart ==
    /\ rconn = "nil"
    /\ \E ok \in BOOLEAN :
          /\ rconn' = IF ok THEN "open" ELSE "nil"
          /\ rerr' = IF ok THEN "none" ELSE "listen"
    /\ UNCHANGED <<rbuf, rnext, rpc, rlen, rcmd, rout, rcalls>>
    /\ UNCHANGED notRaw

\* handleConnections: one ReadFromUDP into the shared buffer, and the
\* goroutine it starts on buffer[:n]
RawRead ==
    /\ rconn = "open"
    /\ rnext < MaxDatagrams
    /\ \E d \in RawDatagrams :
          /\ rbuf' = WriteBuf(rbuf, d)
          /\ rlen' = [rlen EXCEPT ![rnext + 1] = Len(d)]
    /\ rnext' = rnext + 1
    /\ rpc' = [rpc EXCEPT ![rnext + 1] = "parse"]
    /\ UNCHANGED <<rconn, rerr, rcmd, rout, rcalls>>
    /\ UNCHANGED notRaw

\* handleIPMIRequest up to the call of processIPMICommand: the length
\* checks and command := data[3]
RawParse(g) ==
    /\ rpc[g] = "parse"
    /\ IF rlen[g] < 4 \/ rlen[g] < 5
       THEN /\ rpc' = [rpc EXCEPT ![g] = "done"]
            /\ UNCHANGED rcmd
       ELSE /\ rcmd' = [rcmd EXCEPT ![g] = <<View(rbuf, rlen[g])[4]>>]
            /\ rpc' = [rpc EXCEPT ![g] = "process"]
    /\ UNCHANGED <<rconn, rerr, rbuf, rnext, rlen, rout, rcalls>>
    /\ UNCHANGED notRaw

\* handleIPMIRequest from the call of processIPMICommand on: params is
\* data[4:] as the buffer holds it now, and the response goes to WriteToUDP
RawProcess(g) ==
    /\ rpc[g] = "process"
    /\ \E hv \in HvOutcomes :
          LET dgram == View(rbuf, rlen[g])
              params == SubSeq(dgram, 5, Len(dgram))
              r == processIPMICommand(rcmd[g][1], params, hv)
          IN  /\ rout' = [rout EXCEPT ![g] = r.response]
              /\ rcalls' = [rcalls EXCEPT ![g] = r.calls]
    /\ rpc' = [rpc EXCEPT ![g] = "done"]
    /\ UNCHANGED <<rconn, rerr, rbuf, rnext, rlen, rcmd>>
    /\ UNCHANGED notRaw

\* Server.Stop
RawStop ==
    /\ rconn # "nil"
    /\ rconn' = "closed"
    /\ UNCHANGED <<rerr, rbuf, rnext, rpc, rlen, rcmd, rout, rcalls>>
    /\ UNCHANGED notRaw

RawParseStep == \E g \in RawTasks : RawParse(g)

RawProcessStep == \E g \in RawTasks : RawProcess(g)

RawNext == RawStart \/ RawRead \/ RawParseStep \/ RawProcessStep \/ RawStop

RawIdle == RawInit

----------------------------------------------------------------------------
(* Claims about the raw server's dispatch *)

\* C8: a request whose command has no case in the dispatch is answered
\* with the completion code InvalidCommand, and its handling calls no
\* hypervisor operation.
C8_UnregisteredInvalidCommand ==
    \A g \in RawTasks :
        (rpc[g] = "done" /\ rcmd[g] # << >> /\ rcmd[g][1] \notin RawCommands)
            => /\ rout[g] = <<InvalidCommand>>
               /\ rcalls[g] = << >>

\* C35: each request task processes the bytes of the datagram that started
\* it: a later ReadFromUDP of the same instance leaves the bytes that every
\* unfinished task has yet to read, its buffer[:n], as they were.
C35_OwnDatagram ==
    [][RawRead =>
          \A g \in RawTasks :
              rpc[g] \in {"parse", "process"} =>
                  View(rbuf', rlen[g]) = View(rbuf, rlen[g])]_vars

----------------------------------------------------------------------------
(* The per-VM chassis server: Start, handleChassisControl, Stop            *)
(*                                                                         *)
(* Two sources define it: package bmc (on IPMI2Simulator) and package ipmi *)
(* (on goipmi.Simulator); `variant` says which one is built.               *)

Variants == {"bmc", "ipmi"}

NoServer == [handlers |-> {}, running |-> FALSE, made |-> FALSE]

NoRequest ==
    [cmd |-> "none", control |-> "none", parsed |-> FALSE,
     param |-> "none", data |-> << >>]

\* a decoded (or undecodable) ChassisControlRequest
ChassisControlRequest(control, parsed) ==
    [NoRequest EXCEPT !.cmd = "ChassisControl", !.control = control,
                      !.parsed = parsed]

\* a ChassisStatus request: it has no body to decode
ChassisStatusRequest == [NoRequest EXCEPT !.cmd = "ChassisStatus", !.parsed = TRUE]

\* a decoded (or undecodable) SetSystemBootOptionsRequest
SetSystemBootOptionsRequest(param, bytes, parsed) ==
    [NoRequest EXCEPT !.cmd = "SetSystemBootOptions", !.param = param,
                      !.data = bytes, !.parsed = parsed]

Binding(nf, cmd, h) == [nf |-> nf, cmd |-> cmd, h |-> h]

\* handlers goipmi.NewSimulator may install by itself: the library is not
\* part of the repository, so its table is an input
BuiltinCandidates ==
    {Binding("App", "GetAuthCapabilities", "goipmi"),
     Binding("App", "SetSessionPrivilegeLevel", "goipmi")}

\* Simulator.SetHandler: handlers[netfn][command] = handler
SetHandler(tbl, nf, cmd, h) ==
    {e \in tbl : ~(e.nf = nf /\ e.cmd = cmd)} \cup {Binding(nf, cmd, h)}

\* the registrations of NewIPMI2Simulator, on the library's table
NewIPMI2SimulatorHandlers(tbl) ==
    SetHandler(
      SetHandler(
        SetHandler(
          SetHandler(tbl, "App", "GetAuthCapabilities", "handleGetAuthCapabilities"),
          "App", "GetSessionChallenge", "handleGetSessionChallenge"),
        "App", "ActivateSession", "handleActivateSession"),
      "App", "CloseSession", "handleCloseSession")

\* the registrations of Server.Start
ChassisHandlers(tbl) ==
    SetHandler(
      SetHandler(
        SetHandler(tbl, "Chassis", "ChassisControl", "handleChassisControl"),
        "Chassis", "ChassisStatus", "handleGetChassisStatus"),
      "Chassis", "SetSystemBootOptions", "handleSetSystemBootOptions")

\* the table Server.Start has built when it calls Run
StartTable(v, tbl) ==
    IF v = "bmc" THEN ChassisHandlers(NewIPMI2SimulatorHandlers(tbl))
    ELSE ChassisHandlers(tbl)

\* the handler a (network function, command) pair is bound to
Lookup(tbl, nf, cmd) == {e.h : e \in {x \in tbl : x.nf = nf /\ x.cmd = cmd}}

\* the completion code a failed hypervisor call is answered with
FailureCode(v) == IF v = "bmc" THEN Unspecified ELSE 1

\* the completion code an undecodable or unknown control is answered with
RejectCode(v) == IF v = "bmc" THEN InvalidCommand ELSE 1

\* req.ChassisControl, by name
Controls == {"PowerDown", "PowerUp", "PowerCycle", "HardReset", "other"}

Answer(code, calls) == [code |-> code, calls |-> calls, flag |-> FALSE, panic |-> FALSE]

\* the power states vCenter reports (runtime.powerState)
PowerStates == {"poweredOn", "poweredOff", "suspended"}

\* a call that makes the virtual machine boot when it succeeds
Boots(call) == call.ok /\ call.op \in {"PowerOnVM", "ResetVM"}

\* what a hypervisor call that succeeded does to the virtual machine:
\* power on and reset boot it, and leave its configuration as it is;
\* SetNextBoot reconfigures it with BootOptions.BootOrder = the one device
Effect(m, call) ==
    IF ~call.ok THEN m
    ELSE CASE Boots(call) -> [m EXCEPT !.power = "poweredOn"]
           [] call.op = "PowerOffVM" -> [m EXCEPT !.power = "poweredOff"]
           [] call.op = "SetNextBoot" -> [m EXCEPT !.bootOrder = call.arg]
           [] OTHER -> m

\* the virtual machine after the calls of one handler, in order
RECURSIVE Effects(_, _)
Effects(m, calls) ==
    IF calls = << >> THEN m
    ELSE Effects(Effect(m, Head(calls)), Tail(calls))

ResetVM(hv) == HvCall("ResetVM", "", hv.reset)

\* the PowerCycle case of handleChassisControl
powerCycle(v, hv) ==
    IF ~hv.off THEN Answer(FailureCode(v), <<PowerOffVM(hv)>>)
    ELSE IF ~hv.on
         THEN Answer(FailureCode(v), <<PowerOffVM(hv), PowerOnVM(hv)>>)
         ELSE Answer(CommandCompleted, <<PowerOffVM(hv), PowerOnVM(hv)>>)

handleChassisControl(v, r, hv) ==
    IF ~r.parsed THEN Answer(RejectCode(v), << >>)
    ELSE CASE r.control = "PowerDown" ->
                IF ~hv.off THEN Answer(FailureCode(v), <<PowerOffVM(hv)>>)
                ELSE Answer(CommandCompleted, <<PowerOffVM(hv)>>)
           [] r.control = "PowerUp" ->
                IF ~hv.on THEN Answer(FailureCode(v), <<PowerOnVM(hv)>>)
                ELSE Answer(CommandCompleted, <<PowerOnVM(hv)>>)
           [] r.control = "HardReset" ->
                IF ~hv.reset THEN Answer(FailureCode(v), <<ResetVM(hv)>>)
                ELSE Answer(CommandCompleted, <<ResetVM(hv)>>)
           [] r.control = "PowerCycle" -> powerCycle(v, hv)
           [] OTHER -> Answer(RejectCode(v), << >>)

\* handleGetChassisStatus, for a virtual machine m
handleGetChassisStatus(v, m, hv) ==
    IF ~hv.get THEN Answer(FailureCode(v), <<GetVMPowerState(hv)>>)
    ELSE [Answer(CommandCompleted, <<GetVMPowerState(hv)>>)
             EXCEPT !.flag = (m.power = "poweredOn")]

\* InvalidObjCommand: the completion code CDh of the IPMI table (command
\* illegal for the specified object); the value is goipmi's
InvalidObjCommand == 205

\* goipmi's boot device selectors (the device field of boot flags data 2)
BootDeviceNone == 0

BootDevicePxe == 4

BootDeviceDisk == 8

BootDeviceCdrom == 20

BootDeviceFloppy == 60

\* req.Param, by name
BootParams == {"BootFlags", "other"}

\* the second data byte of the requests the model sends: every selector
\* the handler knows, one it does not, and some with bits 6 and 7 set
BootBytes == {0, 4, 8, 20, 60, 12, 72, 136, 140, 192}

\* req.Data: too short to hold a device byte, or flags and a device byte
BootData == {<< >>, <<128>>} \cup {<<128, b>> : b \in BootBytes}

\* the parameter check lets every selector through
IsBootFlags_always(param) == TRUE

\* req.Param != goipmi.BootParamBootFlags, negated
IsBootFlags(param) == param = "BootFlags"

\* the value the boot device switch is made on
BootDeviceOf(v, b) == IF v = "bmc" THEN b ELSE b % 64

\* the completion code an unmapped boot device is answered with
UnsupportedCode(v) == IF v = "bmc" THEN InvalidObjCommand ELSE 1

Panic == [Answer("none", << >>) EXCEPT !.panic = TRUE]

handleSetSystemBootOptions(v, r, hv) ==
    IF ~r.parsed THEN Answer(FailureCode(v), << >>)
    ELSE IF ~IsBootFlags(r.param) THEN Answer(CommandCompleted, << >>)
    ELSE IF Len(r.data) < 2 THEN Panic
    ELSE LET dev == BootDeviceOf(v, r.data[2])
             bootDevice == CASE dev = BootDeviceDisk -> "hdd"
                             [] dev = BootDeviceCdrom -> "cdrom"
                             [] dev = BootDevicePxe -> "pxe"
                             [] dev = BootDeviceFloppy -> "floppy"
                             [] OTHER -> "unsupported"
         IN  IF dev = BootDeviceNone THEN Answer(CommandCompleted, << >>)
             ELSE IF bootDevice = "unsupported"
                  THEN Answer(UnsupportedCode(v), << >>)
             ELSE IF ~hv.boot
                  THEN Answer(FailureCode(v), <<SetNextBoot(hv, bootDevice)>>)
                  ELSE Answer(CommandCompleted, <<SetNextBoot(hv, bootDevice)>>)

SrvInit ==
    /\ variant \in Variants
    /\ builtin \in SUBSET BuiltinCandidates
    /\ ipConf \in BOOLEAN
    /\ ipmiServer = NoServer
    /\ serr = "none"
    /\ creq = NoRequest
    /\ cresp = "none"
    /\ ccalls = << >>
    /\ cflag = FALSE
    /\ cpanic = FALSE
    /\ vm \in [power : PowerStates, bootOrder : {"default"}]
    /\ nic \in {"", "eth0"}
    /\ spc = "idle"
    /\ ipAdded = FALSE
    /\ startErr = "never"

\* configureIP: `ip addr show dev <nic>` fails (it does for the empty
\* name), or the address is already there, or `ip addr add` fails or adds it
configureIP(name, present, checkOK, addOK) ==
    IF name = "" \/ ~checkOK THEN [err |-> TRUE, present |-> present, added |-> FALSE]
    ELSE IF present THEN [err |-> FALSE, present |-> TRUE, added |-> FALSE]
    ELSE IF ~addOK THEN [err |-> TRUE, present |-> FALSE, added |-> FALSE]
    ELSE [err |-> FALSE, present |-> TRUE, added |-> TRUE]

\* a Start that carries on after configureIP failed
SrvStart_noAbort ==
    /\ spc = "idle"
    /\ ~ipmiServer.running
    /\ \E checkOK \in BOOLEAN, addOK \in BOOLEAN, runOK \in BOOLEAN :
          LET c == configureIP(nic, ipConf, checkOK, addOK)
          IN  /\ ipConf' = c.present
              /\ ipAdded' = (ipAdded \/ c.added)
              /\ ipmiServer' = [handlers |-> StartTable(variant, builtin),
                                running |-> runOK, made |-> TRUE]
              /\ serr' = IF c.err THEN "configure"
                         ELSE IF runOK THEN "none" ELSE "start"
              /\ startErr' = serr'
    /\ UNCHANGED <<variant, builtin, creq, cresp, ccalls, cflag, cpanic, vm, nic, spc>>
    /\ UNCHANGED notSrv

\* Server.Start: configureIP, the simulator and its handlers, Run
SrvStart ==
    /\ spc = "idle"
    /\ ~ipmiServer.running
    /\ \E checkOK \in BOOLEAN, addOK \in BOOLEAN, runOK \in BOOLEAN :
          LET c == configureIP(nic, ipConf, checkOK, addOK)
          IN  IF c.err
              THEN /\ serr' = "configure"
                   /\ UNCHANGED <<ipConf, ipAdded, ipmiServer>>
              ELSE /\ ipConf' = c.present
                   /\ ipAdded' = (ipAdded \/ c.added)
                   /\ ipmiServer' = [handlers |-> StartTable(variant, builtin),
                                     running |-> runOK, made |-> TRUE]
                   /\ serr' = IF runOK THEN "none" ELSE "start"
    /\ startErr' = serr'
    /\ UNCHANGED <<variant, builtin, creq, cresp, ccalls, cflag, cpanic, vm, nic, spc>>
    /\ UNCHANGED notSrv

\* a ChassisControl request reaches the handler bound to it
SrvChassisControl ==
    /\ ipmiServer.running
    /\ "handleChassisControl" \in Lookup(ipmiServer.handlers, "Chassis", "ChassisControl")
    /\ \E control \in Controls, parsed \in BOOLEAN, hv \in HvPowerOutcomes :
          LET r == ChassisControlRequest(control, parsed)
              a == handleChassisControl(variant, r, hv)
          IN  /\ creq' = r
              /\ cresp' = a.code
              /\ ccalls' = a.calls
              /\ cflag' = a.flag
              /\ cpanic' = a.panic
              /\ vm' = Effects(vm, a.calls)
    /\ UNCHANGED <<variant, builtin, ipConf, ipmiServer, serr, nic, spc, ipAdded,
                   startErr>>
    /\ UNCHANGED notSrv

\* a ChassisStatus request reaches the handler bound to it
SrvChassisStatus ==
    /\ ipmiServer.running
    /\ "handleGetChassisStatus" \in Lookup(ipmiServer.handlers, "Chassis", "ChassisStatus")
    /\ \E hv \in HvQueryOutcomes :
          LET a == handleGetChassisStatus(variant, vm, hv)
          IN  /\ creq' = ChassisStatusRequest
              /\ cresp' = a.code
              /\ ccalls' = a.calls
              /\ cflag' = a.flag
              /\ cpanic' = a.panic
              /\ vm' = Effects(vm, a.calls)
    /\ UNCHANGED <<variant, builtin, ipConf, ipmiServer, serr, nic, spc, ipAdded,
                   startErr>>
    /\ UNCHANGED notSrv

\* a SetSystemBootOptions request reaches the handler bound to it
SrvSetSystemBootOptions ==
    /\ ipmiServer.running
    /\ "handleSetSystemBootOptions"
          \in Lookup(ipmiServer.handlers, "Chassis", "SetSystemBootOptions")
    /\ \E param \in BootParams, bytes \in BootData, parsed \in BOOLEAN,
          hv \in HvBootOutcomes :
          LET r == SetSystemBootOptionsRequest(param, bytes, parsed)
              a == handleSetSystemBootOptions(variant, r, hv)
          IN  /\ creq' = r
              /\ cresp' = a.code
              /\ ccalls' = a.calls
              /\ cflag' = a.flag
              /\ cpanic' = a.panic
              /\ vm' = Effects(vm, a.calls)
    /\ UNCHANGED <<variant, builtin, ipConf, ipmiServer, serr, nic, spc, ipAdded,
                   startErr>>
    /\ UNCHANGED notSrv

\* a cleanupIP that keeps the failure of `ip addr del` to itself
cleanupIP_silent(name, present, delOK) ==
    IF name = "" THEN [err |-> FALSE, present |-> present]
    ELSE IF ~delOK THEN [err |-> FALSE, present |-> present]
    ELSE [err |-> FALSE, present |-> FALSE]

\* cleanupIP: nothing without an interface name, else `ip addr del` removes
\* the address or fails
cleanupIP(name, present, delOK) ==
    IF name = "" THEN [err |-> FALSE, present |-> present]
    ELSE IF ~delOK THEN [err |-> TRUE, present |-> present]
    ELSE [err |-> FALSE, present |-> FALSE]

\* a Stop that goes to cleanupIP with the simulator left running
SrvStop_keepListening ==
    /\ spc = "idle"
    /\ spc' = "cleanup"
    /\ UNCHANGED <<variant, builtin, ipConf, ipmiServer, serr, creq, cresp, ccalls,
                   cflag, cpanic, vm, nic, ipAdded, startErr>>
    /\ UNCHANGED notSrv

\* Server.Stop up to the call of cleanupIP: the simulator's Stop, if there
\* is a simulator
SrvStop ==
    /\ spc = "idle"
    /\ ipmiServer' = IF ipmiServer.made
                     THEN [ipmiServer EXCEPT !.running = FALSE]
                     ELSE ipmiServer
    /\ spc' = "cleanup"
    /\ UNCHANGED <<variant, builtin, ipConf, serr, creq, cresp, ccalls, cflag,
                   cpanic, vm, nic, ipAdded, startErr>>
    /\ UNCHANGED notSrv

\* Server.Stop from the call of cleanupIP on, and what Stop returns
SrvCleanupIP ==
    /\ spc = "cleanup"
    /\ \E delOK \in BOOLEAN :
          LET c == cleanupIP(nic, ipConf, delOK)
          IN  /\ ipConf' = c.present
              /\ ipAdded' = (ipAdded /\ c.present)
              /\ serr' = IF c.err THEN "cleanup" ELSE "none"
    /\ spc' = "idle"
    /\ UNCHANGED <<variant, builtin, ipmiServer, creq, cresp, ccalls, cflag,
                   cpanic, vm, nic, startErr>>
    /\ UNCHANGED notSrv

SrvNext ==
    \/ SrvStart
    \/ SrvChassisControl
    \/ SrvChassisStatus
    \/ SrvSetSystemBootOptions
    \/ SrvStop
    \/ SrvCleanupIP

SrvIdle ==
    /\ variant = "bmc"
    /\ builtin = {}
    /\ ipConf = FALSE
    /\ ipmiServer = NoServer
    /\ serr = "none"
    /\ creq = NoRequest
    /\ cresp = "none"
    /\ ccalls = << >>
    /\ cflag = FALSE
    /\ cpanic = FALSE
    /\ vm = [power |-> "poweredOff", bootOrder |-> "default"]
    /\ nic = ""
    /\ spc = "idle"
    /\ ipAdded = FALSE
    /\ startErr = "never"

----------------------------------------------------------------------------
(* Claims about the chassis server *)

\* C10: handling ChassisControl(PowerCycle) calls PowerOff first; if that
\* fails PowerOn is not attempted and the response is Unspecified; if it
\* succeeds PowerOn is called exactly once, and the response is
\* CommandCompleted exactly when both succeeded, Unspecified when PowerOn
\* failed.
C10_PowerCycle ==
    (creq.parsed /\ creq.control = "PowerCycle") =>
        /\ Len(ccalls) >= 1
        /\ ccalls[1].op = "PowerOffVM"
        /\ ~ccalls[1].ok => (Len(ccalls) = 1 /\ cresp = Unspecified)
        /\ ccalls[1].ok =>
              /\ Len(ccalls) = 2
              /\ ccalls[2].op = "PowerOnVM"
              /\ (cresp = CommandCompleted) <=> ccalls[2].ok
              /\ ~ccalls[2].ok => cresp = Unspecified

\* C11: a ChassisControl request for PowerDown, PowerUp or HardReset calls
\* the corresponding hypervisor operation (PowerOff, PowerOn, Reset)
\* exactly once and no other operation; the response is CommandCompleted
\* when the operation succeeded and Unspecified when it failed, and a
\* failed operation is not called again.
C11_SingleOperation ==
    (creq.parsed /\ creq.control \in {"PowerDown", "PowerUp", "HardReset"}) =>
        /\ Len(ccalls) = 1
        /\ ccalls[1].op = (CASE creq.control = "PowerDown" -> "PowerOffVM"
                             [] creq.control = "PowerUp" -> "PowerOnVM"
                             [] creq.control = "HardReset" -> "ResetVM")
        /\ ccalls[1].ok => cresp = CommandCompleted
        /\ ~ccalls[1].ok => cresp = Unspecified

\* C12: a ChassisControl request whose control code is none of PowerDown,
\* PowerUp, HardReset, PowerCycle is answered with InvalidCommand, and its
\* handling calls no hypervisor operation.
C12_UnknownControl ==
    (creq.parsed /\ creq.control = "other") =>
        /\ cresp = InvalidCommand
        /\ ccalls = << >>

\* C13: handling ChassisStatus calls GetPowerState exactly once and
\* leaves the virtual machine as it was; when the query succeeds the
\* response is CommandCompleted and its power flag is set exactly when the
\* machine is powered on; when the query fails the response is Unspecified.
C13_ChassisStatus ==
    [][SrvChassisStatus =>
          /\ vm' = vm
          /\ Len(ccalls') = 1
          /\ ccalls'[1].op = "GetVMPowerState"
          /\ ccalls'[1].ok =>
                /\ cresp' = CommandCompleted
                /\ cflag' <=> (vm.power = "poweredOn")
          /\ ~ccalls'[1].ok => cresp' = Unspecified]_vars

\* C14: a SetSystemBootOptions request whose parameter selector is not
\* boot flags is answered with CommandCompleted and its handling never
\* calls SetNextBoot, whatever its data bytes are.
C14_OtherParamIgnored ==
    (creq.cmd = "SetSystemBootOptions" /\ creq.parsed /\ creq.param # "BootFlags") =>
        /\ ~cpanic
        /\ cresp = CommandCompleted
        /\ \A i \in 1..Len(ccalls) : ccalls[i].op # "SetNextBoot"

\* C14 witness: a request with another selector whose data names a boot
\* device (disk) has been answered with CommandCompleted.
C14_Witness ==
    /\ creq.cmd = "SetSystemBootOptions" /\ creq.parsed
    /\ creq.param = "other"
    /\ creq.data = <<128, BootDeviceDisk>>
    /\ cresp = CommandCompleted

\* C15: for a boot-flags SetSystemBootOptions request the outcome is
\* decided by the device field with bits 6 and 7 masked out: no override
\* gives success without SetNextBoot; disk, CD-ROM, PXE and floppy give
\* SetNextBoot of hdd, cdrom, pxe and floppy; anything else gives
\* InvalidObjCommand without SetNextBoot -- the same whether or not the
\* masked bits are set.
C15_MaskedBootDevice ==
    (/\ creq.cmd = "SetSystemBootOptions" /\ creq.parsed
     /\ creq.param = "BootFlags" /\ Len(creq.data) >= 2) =>
        LET dev == creq.data[2] % 64
            mapped == {BootDeviceDisk, BootDeviceCdrom, BootDevicePxe, BootDeviceFloppy}
        IN  /\ dev = BootDeviceNone => (cresp = CommandCompleted /\ ccalls = << >>)
            /\ dev \in mapped =>
                  /\ Len(ccalls) = 1
                  /\ ccalls[1].op = "SetNextBoot"
                  /\ ccalls[1].arg = (CASE dev = BootDeviceDisk -> "hdd"
                                        [] dev = BootDeviceCdrom -> "cdrom"
                                        [] dev = BootDevicePxe -> "pxe"
                                        [] dev = BootDeviceFloppy -> "floppy")
            /\ dev \notin mapped \cup {BootDeviceNone} =>
                  (cresp = InvalidObjCommand /\ ccalls = << >>)

\* C16: a boot device set through SetNextBoot is one-shot: the next boot
\* of the virtual machine uses it, and after that boot the machine's boot
\* order is again the default it had before the request.
C16_OneShotBoot ==
    [][(SrvChassisControl /\ \E i \in 1..Len(ccalls') : Boots(ccalls'[i])) =>
          vm'.bootOrder = "default"]_vars

\* some handler of the chassis server handles a command
SrvHandles == SrvChassisControl \/ SrvChassisStatus \/ SrvSetSystemBootOptions

\* C19: Start aborts at the first failing step.  When address
\* configuration fails, Start returns that error and leaves the simulator
\* field, its handler table and its listener as they were; when the
\* simulator does not come up, Start returns an error; and a command is
\* handled only while the last Start has succeeded.
C19_StartAborts ==
    [][/\ (SrvStart /\ serr' = "configure") => UNCHANGED ipmiServer
       /\ (SrvStart /\ ~ipmiServer'.running) => serr' \in {"configure", "start"}
       /\ SrvHandles => (ipmiServer.running /\ serr = "none")]_vars

\* C19 witness: a first Start has failed in configureIP, with no address,
\* no simulator and no handler
C19_Witness ==
    /\ serr = "configure"
    /\ ~ipConf
    /\ ipmiServer = NoServer
    /\ creq = NoRequest

\* C20: Stop stops the listener before it attempts to remove the address:
\* cleanupIP runs with the listener stopped, and when the removal fails
\* Stop returns that error with the listener stopped, so that no command is
\* handled until another Start.
C20_StopOrder ==
    [][/\ SrvCleanupIP => (~ipmiServer.running /\ ~ipmiServer'.running)
       /\ serr' = "cleanup" => ~ipmiServer'.running
       /\ SrvHandles => serr # "cleanup"]_vars

\* C20 witness: Stop of a server that had handled a command has returned
\* the removal's error: the address is still there, the listener is not
C20_Witness ==
    /\ serr = "cleanup"
    /\ spc = "idle"
    /\ ipConf
    /\ ipmiServer.made
    /\ ~ipmiServer.running
    /\ creq # NoRequest

\* C29: every well-framed request that reaches a handler is answered with
\* a completion code: the handler does not abort, whatever the request's
\* data bytes are and whether or not its hypervisor call fails.
C29_AlwaysAnswered ==
    (creq # NoRequest /\ creq.parsed) =>
        IF cpanic THEN FALSE ELSE cresp \in 0..255

\* C21 (as claimed): after Stop on a Server whose Start failed, the Server
\* has no listener and the address it added is no longer on the interface.
C21_StopReleases ==
    [][(SrvCleanupIP /\ startErr \in {"configure", "start"}) =>
          (~ipmiServer'.running /\ ~ipAdded')]_vars

\* C21 (amended): after Stop on a Server whose Start failed, the Server has
\* no listener, and the address it added is no longer on the interface
\* unless its removal failed, in which case Stop returned that error.
C21_StopReleasesOrReports ==
    [][(SrvCleanupIP /\ startErr \in {"configure", "start"}) =>
          /\ ~ipmiServer'.running
          /\ ipAdded' => serr' = "cleanup"]_vars

\* C21 witness: the last Start configured the address and failed to bring
\* the simulator up, and the Stop after it has removed the address
C21_Witness ==
    /\ startErr = "start"
    /\ spc = "idle"
    /\ serr = "none"
    /\ ipmiServer.made
    /\ ~ipmiServer.running
    /\ ~ipConf
    /\ nic # ""

----------------------------------------------------------------------------
(* The fleet supervisor: main's address pool and the Servers it starts     *)
(*                                                                         *)
(* A net.IP is a slice: a sequence of 4 bytes here.  ipRange and           *)
(* incrementIP write through the slice they are handed, and NewServer      *)
(* stores the slice it is handed, so that every Server's ip is the very    *)
(* bytes of main's currentIP.                                              *)

\* ip[j]++ on a byte
IncByte(ip, j) == [ip EXCEPT ![j] = (ip[j] + 1) % 256]

\* incrementIP's loop from byte j down
RECURSIVE incrementFrom(_, _)
incrementFrom(ip, j) ==
    IF j = 0 THEN ip
    ELSE LET n == IncByte(ip, j)
         IN  IF n[j] > 0 THEN n ELSE incrementFrom(n, j - 1)

incrementIP(ip) == incrementFrom(ip, Len(ip))

\* ipRange's loop: the count, and what it leaves in the bytes of start
RECURSIVE ipRangeFrom(_, _, _)
ipRangeFrom(i, start, end) ==
    IF start = end THEN [count |-> i, start |-> start]
    ELSE ipRangeFrom(i + 1, incrementIP(start), end)

ipRange(start, end) == ipRangeFrom(1, start, end)

\* the loop on usedIPs at the head of the newer main's loop body
RECURSIVE skipUsed(_, _, _)
skipUsed(ip, used, end) ==
    IF ip \notin used THEN [ip |-> ip, fatal |-> FALSE]
    ELSE LET n == incrementIP(ip)
         IN  IF n = end THEN [ip |-> n, fatal |-> TRUE]
             ELSE skipUsed(n, used, end)

\* an address as a number, for comparing
IPNum(ip) == ((ip[1] * 256 + ip[2]) * 256 + ip[3]) * 256 + ip[4]

RECURSIVE Advance(_, _)
Advance(ip, k) == IF k = 0 THEN ip ELSE Advance(incrementIP(ip), k - 1)

\* the configured ranges: a start, and an end up to MaxSpan - 1 after it
FleetConfigs ==
    {[start |-> a, end |-> Advance(a, k)] :
        a \in {<<10, 0, 0, 1>>, <<10, 0, 0, 254>>}, k \in 0..(MaxSpan - 1)}

\* NewServer: the Server has not started yet
NewServer(ip) == [assigned |-> ip, pc |-> "new", conf |-> << >>, bind |-> << >>]

FleetInit ==
    /\ mainSrc \in {"main.go", "part_002"}
    /\ cfg \in FleetConfigs
    /\ nvms \in 1..MaxVMs
    /\ startIP = cfg.start
    /\ endIP = cfg.end
    /\ currentIP = << >>
    /\ usedIPs = {}
    /\ servers = << >>
    /\ mpc = "range"
    /\ mj = 0

\* main from ipRange to the copy into currentIP
FleetRange ==
    /\ mpc = "range"
    /\ LET r == ipRange(startIP, endIP)
       IN  /\ startIP' = r.start
           /\ IF r.count < nvms
              THEN mpc' = "fatal" /\ UNCHANGED currentIP
              ELSE mpc' = "loop" /\ currentIP' = r.start
    /\ UNCHANGED <<mainSrc, cfg, nvms, endIP, usedIPs, servers, mj>>
    /\ UNCHANGED notFleet

\* the loop body up to the go statement: NewServer(vm, vsClient, currentIP)
FleetAssign ==
    /\ mpc = "loop"
    /\ Len(servers) < nvms
    /\ IF mainSrc = "part_002"
       THEN LET k == skipUsed(currentIP, usedIPs, endIP)
            IN  /\ currentIP' = k.ip
                /\ IF k.fatal
                   THEN mpc' = "fatal" /\ UNCHANGED <<usedIPs, servers, mj>>
                   ELSE /\ usedIPs' = usedIPs \cup {k.ip}
                        /\ servers' = Append(servers, NewServer(k.ip))
                        /\ mpc' = "inc"
                        /\ mj' = Len(k.ip)
       ELSE /\ servers' = Append(servers, NewServer(currentIP))
            /\ mpc' = "inc"
            /\ mj' = Len(currentIP)
            /\ UNCHANGED <<currentIP, usedIPs>>
    /\ UNCHANGED <<mainSrc, cfg, nvms, startIP, endIP>>
    /\ UNCHANGED notFleet

\* incrementIP(currentIP) at the end of the loop body, a byte at a time
FleetIncrement ==
    /\ mpc = "inc"
    /\ currentIP' = IncByte(currentIP, mj)
    /\ IF currentIP'[mj] > 0 \/ mj = 1
       THEN /\ mj' = 0
            /\ mpc' = IF Len(servers) < nvms THEN "loop" ELSE "wait"
       ELSE /\ mj' = mj - 1
            /\ UNCHANGED mpc
    /\ UNCHANGED <<mainSrc, cfg, nvms, startIP, endIP, usedIPs, servers>>
    /\ UNCHANGED notFleet

\* Server.Start in its goroutine, newer Server: configureIP reads s.ip
FleetConfigure(i) ==
    /\ mainSrc = "part_002"
    /\ servers[i].pc = "new"
    /\ servers' = [servers EXCEPT ![i].conf = currentIP, ![i].pc = "configured"]
    /\ UNCHANGED <<mainSrc, cfg, nvms, startIP, endIP, currentIP, usedIPs, mpc, mj>>
    /\ UNCHANGED notFleet

\* Server.Start in its goroutine: the listener is bound to s.ip
FleetBind(i) ==
    /\ servers[i].pc = (IF mainSrc = "part_002" THEN "configured" ELSE "new")
    /\ servers' = [servers EXCEPT ![i].bind = currentIP, ![i].pc = "bound"]
    /\ UNCHANGED <<mainSrc, cfg, nvms, startIP, endIP, currentIP, usedIPs, mpc, mj>>
    /\ UNCHANGED notFleet

FleetConfigureStep == \E i \in 1..Len(servers) : FleetConfigure(i)

FleetBindStep == \E i \in 1..Len(servers) : FleetBind(i)

FleetNext ==
    \/ FleetRange
    \/ FleetAssign
    \/ FleetIncrement
    \/ FleetConfigureStep
    \/ FleetBindStep

FleetIdle ==
    /\ mainSrc = "main.go"
    /\ cfg = [start |-> <<10, 0, 0, 1>>, end |-> <<10, 0, 0, 1>>]
    /\ nvms = 1
    /\ startIP = cfg.start
    /\ endIP = cfg.end
    /\ currentIP = << >>
    /\ usedIPs = {}
    /\ servers = << >>
    /\ mpc = "range"
    /\ mj = 0

----------------------------------------------------------------------------
(* Claims about the fleet supervisor *)

\* C17: when the list of virtual machines fits the configured range, the
\* Servers are given pairwise distinct addresses, each between the range's
\* start and end, and the address a Server configures and the address it
\* binds are the one it was given.
C17_ExclusiveAddress ==
    nvms <= IPNum(cfg.end) - IPNum(cfg.start) + 1 =>
        \A i \in 1..Len(servers) :
            /\ IPNum(cfg.start) <= IPNum(servers[i].assigned)
            /\ IPNum(servers[i].assigned) <= IPNum(cfg.end)
            /\ \A k \in 1..Len(servers) :
                  k # i => servers[k].assigned # servers[i].assigned
            /\ servers[i].conf \in {<< >>, servers[i].assigned}
            /\ servers[i].bind \in {<< >>, servers[i].assigned}

\* C36: ipRange(start, end) returns end - start + 1 and leaves both
\* arguments unchanged, so the assignment that follows begins at the
\* configured range start.
C36_RangeLeavesStart ==
    [][FleetRange =>
          /\ ipRange(startIP, endIP).count = IPNum(endIP) - IPNum(startIP) + 1
          /\ startIP' = startIP
          /\ endIP' = endIP
          /\ mpc' = "loop" => currentIP' = cfg.start]_vars

----------------------------------------------------------------------------
(* Two raw UDP servers in one process, each with its own virtual machine,  *)
(* socket and buffer, and the one vsphere Client they share                *)

Instances == {1, 2}

\* the addresses ChassisStatus requests come from
Clients == {"A", "B"}

\* the ChassisStatus request a client sends: command 0x02 at offset 3; the
\* two clients' datagrams differ in length and in the byte after it
PairDatagram(c) == IF c = "A" THEN <<6, 0, 255, 2, 0>> ELSE <<6, 0, 255, 2, 7, 9>>

\* the goroutine's remoteAddr is the loop variable of the other read
ReplyTo_latest(remoteAddr, latest) == latest

\* the address handleIPMIRequest writes to: its own remoteAddr argument
ReplyTo(remoteAddr, latest) == remoteAddr

\* go s.handleIPMIRequest(ctx, buffer[:n], remoteAddr)
PairTask(n, c) ==
    [pc |-> "parse", n |-> n, from |-> c, remoteAddr |-> c, command |-> << >>,
     response |-> << >>, dest |-> "none", calls |-> << >>]

PairInit ==
    /\ pvm \in [Instances -> {"poweredOn", "poweredOff"}]
    /\ pbuf = [i \in Instances |-> << >>]
    /\ plast = [i \in Instances |-> "none"]
    /\ ptask = [i \in Instances |-> << >>]

\* a handleConnections that calls handleIPMIRequest itself: the next
\* ReadFromUDP waits for every request read before it
PairRead_inline(i) ==
    /\ \A g \in 1..Len(ptask[i]) : ptask[i][g].pc = "done"
    /\ Len(ptask[1]) + Len(ptask[2]) < MaxRequests
    /\ \E c \in Clients :
          /\ pbuf' = [pbuf EXCEPT ![i] = WriteBuf(pbuf[i], PairDatagram(c))]
          /\ plast' = [plast EXCEPT ![i] = c]
          /\ ptask' = [ptask EXCEPT
                          ![i] = Append(@, PairTask(Len(PairDatagram(c)), c))]
    /\ UNCHANGED pvm
    /\ UNCHANGED notPair

\* handleConnections of instance i: one ReadFromUDP and the go statement
PairRead(i) ==
    /\ Len(ptask[1]) + Len(ptask[2]) < MaxRequests
    /\ \E c \in Clients :
          /\ pbuf' = [pbuf EXCEPT ![i] = WriteBuf(pbuf[i], PairDatagram(c))]
          /\ plast' = [plast EXCEPT ![i] = c]
          /\ ptask' = [ptask EXCEPT
                          ![i] = Append(@, PairTask(Len(PairDatagram(c)), c))]
    /\ UNCHANGED pvm
    /\ UNCHANGED notPair

\* handleIPMIRequest of instance i up to the call of processIPMICommand
PairParse(i, g) ==
    /\ ptask[i][g].pc = "parse"
    /\ LET t == ptask[i][g]
       IN  IF t.n < 4 \/ t.n < 5
           THEN ptask' = [ptask EXCEPT ![i][g].pc = "done"]
           ELSE ptask' = [ptask EXCEPT ![i][g].pc = "process",
                              ![i][g].command = <<View(pbuf[i], t.n)[4]>>]
    /\ UNCHANGED <<pvm, pbuf, plast>>
    /\ UNCHANGED notPair

\* handleIPMIRequest of instance i from processIPMICommand on: the Client
\* is asked about s.vm, and the response goes to WriteToUDP
PairProcess(i, g) ==
    /\ ptask[i][g].pc = "process"
    /\ \E h \in HvQueryOutcomes :
          LET t == ptask[i][g]
              hv == [h EXCEPT !.power = pvm[i]]
              dgram == View(pbuf[i], t.n)
              params == SubSeq(dgram, 5, Len(dgram))
              r == processIPMICommand(t.command[1], params, hv)
          IN  ptask' = [ptask EXCEPT ![i][g].pc = "done",
                             ![i][g].response = r.response,
                             ![i][g].calls = r.calls,
                             ![i][g].dest = ReplyTo(t.remoteAddr, plast[i])]
    /\ UNCHANGED <<pvm, pbuf, plast>>
    /\ UNCHANGED notPair

PairReadStep == \E i \in Instances : PairRead(i)

PairParseStep == \E i \in Instances : \E g \in 1..Len(ptask[i]) : PairParse(i, g)

PairProcessStep == \E i \in Instances : \E g \in 1..Len(ptask[i]) : PairProcess(i, g)

PairNext == PairReadStep \/ PairParseStep \/ PairProcessStep

PairIdle ==
    /\ pvm = [i \in Instances |-> "poweredOff"]
    /\ pbuf = [i \in Instances |-> << >>]
    /\ plast = [i \in Instances |-> "none"]
    /\ ptask = [i \in Instances |-> << >>]

----------------------------------------------------------------------------
(* Claims about two instances *)

\* C18: two instances answer concurrent ChassisStatus requests without
\* cross-talk: every request an instance has handled was answered to the
\* address it came from, after exactly one power state query, and an
\* answer to a query that succeeded carries the power flag of that
\* instance's own virtual machine.
C18_NoCrossTalk ==
    \A i \in Instances : \A g \in 1..Len(ptask[i]) :
        LET t == ptask[i][g]
        IN  t.pc = "done" =>
              /\ t.dest = t.from
              /\ Len(t.calls) = 1
              /\ t.calls[1].op = "GetVMPowerState"
              /\ t.calls[1].ok =>
                    t.response = <<0, IF pvm[i] = "poweredOn" THEN 1 ELSE 0>>
              /\ ~t.calls[1].ok => Len(t.response) = 1 /\ t.response[1] # 0

\* C18 witness: the instances' machines differ in power state, instance 1
\* has answered client A's request with the flag set, and instance 2 has
\* answered client B's request, read while the first was being handled,
\* with the flag clear
C18_Witness ==
    /\ pvm[1] = "poweredOn"
    /\ pvm[2] = "poweredOff"
    /\ Len(ptask[1]) = 1
    /\ Len(ptask[2]) = 1
    /\ ptask[1][1].pc = "done"
    /\ ptask[1][1].dest = "A"
    /\ ptask[1][1].response = <<0, 1>>
    /\ ptask[2][1].pc = "done"
    /\ ptask[2][1].dest = "B"
    /\ ptask[2][1].response = <<0, 0>>

\* C24: while the handling of one datagram stands at its hypervisor call,
\* each instance's receive loop can read a further datagram, and every
\* other request in flight, on the same instance or the other, can take
\* its next step and be answered: nothing waits for the blocked one.
C24_NotBlocked ==
    \A i \in Instances : \A g \in 1..Len(ptask[i]) :
        ptask[i][g].pc = "process" =>
            /\ Len(ptask[1]) + Len(ptask[2]) < MaxRequests =>
                  \A j \in Instances : ENABLED PairRead(j)
            /\ \A j \in Instances : \A h \in 1..Len(ptask[j]) :
                  <<j, h>> # <<i, g>> =>
                     /\ ptask[j][h].pc = "parse" => ENABLED PairParse(j, h)
                     /\ ptask[j][h].pc = "process" => ENABLED PairProcess(j, h)

\* C24 witness: on instance 1 the first request still stands at its
\* hypervisor call while the request read after it has been answered
C24_Witness ==
    /\ Len(ptask[1]) = 2
    /\ ptask[1][1].pc = "process"
    /\ ptask[1][2].pc = "done"
    /\ ptask[1][2].response # << >>
    /\ ptask[1][2].dest = ptask[1][2].from

----------------------------------------------------------------------------
(* One LANPlus session: Connect, SendMessage, ReceiveMessage               *)

\* l.sequenceNum++ on a uint32
Inc32(x) == IF x[2] = 65535 THEN <<(x[1] + 1) % 65536, 0>> ELSE <<x[1], x[2] + 1>>

\* the frame SendMessage builds from the session and the payload
SendFrame(l, msg) ==
    LET buf == <<6, 0, 0, 7, l.authType, 0>> \o LE32(l.sessionID)
                  \o LE32(l.sequenceNum) \o LE16(Len(msg)) \o msg
    IN  IF l.authType # 0 /\ l.authenticated
        THEN buf \o generateAuthCode(l.password, buf)
        ELSE buf

\* a SendMessage that does not look at l.active
SendMessage_unchecked(l, msg, writeOK) ==
    IF ~writeOK
    THEN [err |-> "failed to send message", wire |-> << >>, l |-> l]
    ELSE [err |-> "nil", wire |-> <<SendFrame(l, msg)>>,
          l |-> [l EXCEPT !.sequenceNum = Inc32(l.sequenceNum)]]

\* LANPlus.SendMessage when conn.Write succeeds (writeOK) or fails: the
\* error returned, the frames written, the session afterwards
SendMessage(l, msg, writeOK) ==
    IF ~l.active THEN [err |-> "session not active", wire |-> << >>, l |-> l]
    ELSE IF ~writeOK
         THEN [err |-> "failed to send message", wire |-> << >>, l |-> l]
         ELSE [err |-> "nil", wire |-> <<SendFrame(l, msg)>>,
               l |-> [l EXCEPT !.sequenceNum = Inc32(l.sequenceNum)]]

\* the initial RAKP message of openSession
rakpMsg == <<16, 0, 0, 0, 0, 0>>

\* LANPlus.openSession with the random session id rnd
openSession(l, randOK, rnd, writeOK) ==
    IF ~randOK THEN [err |-> "rand", wire |-> << >>, l |-> l]
    ELSE LET snd == SendMessage([l EXCEPT !.sessionID = rnd], rakpMsg, writeOK)
         IN  IF snd.err # "nil" THEN snd
             ELSE [snd EXCEPT !.err = "session establishment not yet implemented"]

\* LANPlus.Connect: the cause of the error returned, the frames written,
\* the session and the connection afterwards
Connect(l, dialOK, randOK, rnd, writeOK) ==
    IF ~dialOK THEN [err |-> "dial failed", wire |-> << >>, l |-> l, conn |-> "nil"]
    ELSE LET o == openSession(l, randOK, rnd, writeOK)
         IN  IF o.err # "nil"
             THEN [err |-> o.err, wire |-> o.wire, l |-> o.l, conn |-> "closed"]
             ELSE [err |-> "nil", wire |-> o.wire,
                   l |-> [o.l EXCEPT !.active = TRUE], conn |-> "open"]

\* LANPlus.Close: nothing on a session that is not active; else
\* closeSession, which returns nil, then l.active = false and conn.Close()
Close(l, conn) ==
    IF ~l.active THEN [err |-> "nil", l |-> l, conn |-> conn]
    ELSE [err |-> "nil", l |-> [l EXCEPT !.active = FALSE], conn |-> "closed"]

\* a session as NewLANPlus(WithCredentials(...)) returns it
FreshSession == [NewLANPlus EXCEPT !.password = 7]

\* a session in use: active, with session id 1, authenticated or not, with
\* either auth type.  (No call of the package makes a session active;
\* SendMessage and ReceiveMessage are functions of the session they get.)
UsedSessions ==
    {[FreshSession EXCEPT !.active = TRUE, !.authenticated = au, !.authType = at,
                          !.sessionID = W32(1)] : au \in BOOLEAN, at \in {0, 1}}

\* the frames a peer sends: one payload byte, sequence number 5, either
\* auth type byte, the session's id or another, and no trailer, a wrong
\* one or the right one
PeerFrames ==
    {LanFrame(6, 7, auth, 0, sessID, 1, tr) :
        auth \in {0, 1}, sessID \in {W32(1), W32(2)}, tr \in {"none", "wrong", "good"}}

NoCall == [op |-> "none", err |-> "none", d |-> << >>, before |-> NewLANPlus, n |-> 0]

LanInit ==
    /\ \/ ls = FreshSession /\ lconn = "nil"
       \/ ls \in UsedSessions /\ lconn = "open"
    /\ lwire = << >>
    /\ lret = NoCall

\* l.Connect(addr) on a session that has no open connection
LanConnect ==
    /\ lconn # "open"
    /\ lret.n < MaxCalls
    /\ \E dialOK \in BOOLEAN, randOK \in BOOLEAN, rnd \in {W32(1), <<65535, 65535>>},
          writeOK \in BOOLEAN :
          LET c == Connect(ls, dialOK, randOK, rnd, writeOK)
          IN  /\ ls' = c.l
              /\ lconn' = c.conn
              /\ lwire' = lwire \o c.wire
              /\ lret' = [op |-> "Connect", err |-> c.err, d |-> << >>,
                          before |-> ls, n |-> lret.n + 1]
    /\ UNCHANGED notLan

\* l.SendMessage(msg)
LanSend ==
    /\ lret.n < MaxCalls
    /\ \E writeOK \in BOOLEAN :
          LET c == SendMessage(ls, <<1>>, writeOK /\ lconn = "open")
          IN  /\ ls' = c.l
              /\ lwire' = lwire \o c.wire
              /\ lret' = [op |-> "SendMessage", err |-> c.err, d |-> << >>,
                          before |-> ls, n |-> lret.n + 1]
    /\ UNCHANGED lconn
    /\ UNCHANGED notLan

\* l.ReceiveMessage() when the connection delivers a peer's frame or fails
LanReceive ==
    /\ lret.n < MaxCalls
    /\ \E d \in PeerFrames, readOK \in BOOLEAN :
          LET c == ReceiveMessage(ls, d, readOK /\ lconn = "open")
          IN  /\ ls' = c.l
              /\ lret' = [op |-> "ReceiveMessage", err |-> c.err, d |-> d,
                          before |-> ls, n |-> lret.n + 1]
    /\ UNCHANGED <<lconn, lwire>>
    /\ UNCHANGED notLan

\* l.Close()
LanClose ==
    /\ lret.n < MaxCalls
    /\ LET c == Close(ls, lconn)
       IN  /\ ls' = c.l
           /\ lconn' = c.conn
           /\ lret' = [op |-> "Close", err |-> c.err, d |-> << >>,
                       before |-> ls, n |-> lret.n + 1]
    /\ UNCHANGED lwire
    /\ UNCHANGED notLan

LanNext == LanConnect \/ LanSend \/ LanReceive \/ LanClose

\* a client of the package: the session NewLANPlus returns, not connected
ClientInit ==
    /\ ls = FreshSession
    /\ lconn = "nil"
    /\ lwire = << >>
    /\ lret = NoCall

LanIdle ==
    /\ ls = FreshSession
    /\ lconn = "nil"
    /\ lwire = << >>
    /\ lret = NoCall

----------------------------------------------------------------------------
(* Claims about the LANPlus session *)

\* the datagram ends in the keyed hash of its frame prefix under the
\* session's password
CarriesCode(l, d) ==
    LET payloadEnd == 16 + FromLE16(B(d, 14), B(d, 15))
    IN  /\ Len(d) >= payloadEnd + 20
        /\ Slice(d, payloadEnd, payloadEnd + 20)
              = generateAuthCode(l.password, Slice(d, 0, payloadEnd))

Ge32(new, old) ==
    LET borrow == IF new[2] < old[2] THEN 1 ELSE 0
    IN  (new[1] - old[1] - borrow + 65536) % 65536 < 32768

C28_ConnectStopsAfterFirst ==
    [][(LanConnect /\ lconn' # "nil") =>
          /\ Len(lwire') = Len(lwire) + 1
          /\ lret'.err = "session establishment not yet implemented"
          /\ ~ls'.active
          /\ ~ls'.authenticated]_vars

\* C37: a LANPlus client session is never active: after any sequence of
\* Connect, Close, SendMessage and ReceiveMessage calls on the session
\* NewLANPlus returned, active and authenticated are false, every
\* SendMessage and ReceiveMessage has returned the session-not-active
\* error, no frame was written, and a failed Connect leaves no open
\* connection.
C37_NeverActive ==
    /\ ~ls.active
    /\ ~ls.authenticated
    /\ lwire = << >>
    /\ lret.op \in {"SendMessage", "ReceiveMessage"} => lret.err = "session not active"
    /\ (lret.op = "Connect" /\ lret.err # "nil") => lconn # "open"

\* C37 witness: after a Connect that failed in openSession and closed its
\* connection, and a Close, a SendMessage has returned the error
C37_Witness ==
    /\ lret.op = "SendMessage"
    /\ lret.err = "session not active"
    /\ lret.n = 3
    /\ lconn = "closed"
    /\ ls.sessionID # NewLANPlus.sessionID

----------------------------------------------------------------------------
(* The IP database: callers hand their operation to handleOperations over  *)
(* the unbuffered opChan and wait for its result on an unbuffered channel  *)
(* of their own                                                            *)

DBCallers == {1, 2}

DBOp(name, vmID, ip, existing) ==
    [name |-> name, vmID |-> vmID, ip |-> ip, existing |-> existing]

\* the calls made: AssignIP(vmID, ip), GetIP(vmID), RemoveVM(vmID),
\* GetAssignedIPs(), Cleanup(existingVMs)
DBOps ==
    {DBOp("AssignIP", "vm1", "10.0.0.1", {}), DBOp("AssignIP", "vm1", "10.0.0.2", {}),
     DBOp("AssignIP", "vm2", "10.0.0.1", {}), DBOp("GetIP", "vm1", "", {}),
     DBOp("RemoveVM", "vm1", "", {}), DBOp("GetAssignedIPs", "", "", {}),
     DBOp("Cleanup", "", "", {"vm2"})}

NoDBResult == [ip |-> "", exists |-> FALSE, err |-> FALSE, ips |-> {}]

\* delete(m, k)
MapDelete(m, k) == [x \in DOMAIN m \ {k} |-> m[x]]

\* the closure AssignIP sends: db.VMToIP[vmID] = ip without the write
assignIP_lost(m, vmID, ip) == m

\* the closure AssignIP sends: db.VMToIP[vmID] = ip
assignIP(m, vmID, ip) == MapSet(m, vmID, ip)

\* the closure an operation sends, run on the map m with save succeeding
\* or not: the map afterwards, the value put on the response channel, and
\* whether save was called
RunOp(m, op, saveOK) ==
    CASE op.name = "AssignIP" ->
            [map |-> assignIP(m, op.vmID, op.ip),
             result |-> [NoDBResult EXCEPT !.err = ~saveOK], saves |-> TRUE]
      [] op.name = "GetIP" ->
            [map |-> m,
             result |-> IF op.vmID \in DOMAIN m
                        THEN [NoDBResult EXCEPT !.ip = m[op.vmID], !.exists = TRUE]
                        ELSE NoDBResult,
             saves |-> FALSE]
      [] op.name = "RemoveVM" ->
            [map |-> MapDelete(m, op.vmID),
             result |-> [NoDBResult EXCEPT !.err = ~saveOK], saves |-> TRUE]
      [] op.name = "GetAssignedIPs" ->
            [map |-> m,
             result |-> [NoDBResult EXCEPT !.ips = {m[v] : v \in DOMAIN m}],
             saves |-> FALSE]
      [] op.name = "Cleanup" ->
            [map |-> [v \in DOMAIN m \cap op.existing |-> m[v]],
             result |-> [NoDBResult EXCEPT !.err = ~saveOK], saves |-> TRUE]

\* an operation called with no other in progress: the map it leaves
SeqMap(m, op) ==
    LET dom == CASE op.name = "AssignIP" -> DOMAIN m \cup {op.vmID}
                 [] op.name = "RemoveVM" -> DOMAIN m \ {op.vmID}
                 [] op.name = "Cleanup" -> DOMAIN m \cap op.existing
                 [] OTHER -> DOMAIN m
    IN  [v \in dom |-> IF op.name = "AssignIP" /\ v = op.vmID THEN op.ip ELSE m[v]]

\* an operation called with no other in progress: the values it returns,
\* the error of save apart
SeqResult(m, op) ==
    [ip |-> IF op.name = "GetIP" /\ op.vmID \in DOMAIN m THEN m[op.vmID] ELSE "",
     exists |-> op.name = "GetIP" /\ op.vmID \in DOMAIN m,
     ips |-> IF op.name = "GetAssignedIPs" THEN {m[v] : v \in DOMAIN m} ELSE {}]

Idle == [pc |-> "idle", op |-> DBOp("none", "", "", {}), ret |-> NoDBResult]

Waiting == [at |-> "select", k |-> 0, result |-> NoDBResult]

\* NewIPDB: the map as loaded from the file, the handler started
DBInit ==
    /\ VMToIP \in {<< >>, [v \in {"vm1"} |-> "10.0.0.1"]}
    /\ dbFile = VMToIP
    /\ callers = [k \in DBCallers |-> Idle]
    /\ handler = Waiting
    /\ committed = VMToIP
    /\ invoked = 0
    /\ closed = FALSE

\* a goroutine calls an operation: it makes its response channel and
\* blocks sending the closure on db.opChan
DBCall(k) ==
    /\ callers[k].pc = "idle"
    /\ invoked < MaxOps
    /\ \E op \in DBOps :
          callers' = [callers EXCEPT ![k] = [pc |-> "send", op |-> op,
                                             ret |-> NoDBResult]]
    /\ invoked' = invoked + 1
    /\ UNCHANGED <<VMToIP, dbFile, handler, committed, closed>>
    /\ UNCHANGED notDB

\* handleOperations: `case op := <-db.opChan` meets caller k's send; the
\* caller goes on to wait on its response channel
DBReceive(k) ==
    /\ handler.at = "select"
    /\ callers[k].pc = "send"
    /\ handler' = [at |-> "run", k |-> k, result |-> NoDBResult]
    /\ callers' = [callers EXCEPT ![k].pc = "wait"]
    /\ UNCHANGED <<VMToIP, dbFile, committed, invoked, closed>>
    /\ UNCHANGED notDB

\* handleOperations: op(db) up to its send on the response channel
DBRun ==
    /\ handler.at = "run"
    /\ \E saveOK \in BOOLEAN :
          LET r == RunOp(VMToIP, callers[handler.k].op, saveOK)
          IN  /\ VMToIP' = r.map
              /\ dbFile' = IF r.saves /\ saveOK THEN r.map ELSE dbFile
              /\ handler' = [handler EXCEPT !.at = "respond", !.result = r.result]
    /\ UNCHANGED <<callers, committed, invoked, closed>>
    /\ UNCHANGED notDB

\* the closure's send on the response channel meets the caller's receive:
\* the caller returns the value, and handleOperations goes back to select
DBRespond ==
    /\ handler.at = "respond"
    /\ callers[handler.k].pc = "wait"
    /\ callers' = [callers EXCEPT ![handler.k].pc = "idle",
                                  ![handler.k].ret = handler.result]
    /\ committed' = SeqMap(committed, callers[handler.k].op)
    /\ handler' = Waiting
    /\ UNCHANGED <<VMToIP, dbFile, invoked, closed>>
    /\ UNCHANGED notDB

\* IPDB.Close: close(db.done)
DBClose ==
    /\ ~closed
    /\ closed' = TRUE
    /\ UNCHANGED <<VMToIP, dbFile, callers, handler, committed, invoked>>
    /\ UNCHANGED notDB

\* handleOperations: `case <-db.done: return`
DBExit ==
    /\ handler.at = "select"
    /\ closed
    /\ handler' = [handler EXCEPT !.at = "exited"]
    /\ UNCHANGED <<VMToIP, dbFile, callers, committed, invoked, closed>>
    /\ UNCHANGED notDB

DBCallStep == \E k \in DBCallers : DBCall(k)

DBReceiveStep == \E k \in DBCallers : DBReceive(k)

DBNext == DBCallStep \/ DBReceiveStep \/ DBRun \/ DBRespond \/ DBClose \/ DBExit

DBIdle ==
    /\ VMToIP = << >>
    /\ dbFile = << >>
    /\ callers = [k \in DBCallers |-> Idle]
    /\ handler = Waiting
    /\ committed = << >>
    /\ invoked = 0
    /\ closed = FALSE

\* C30: the store is serialized on the handler task.  At most one
\* operation is between its hand-over and its return; each operation acts
\* on the map left by the operations that have returned, in the order they
\* returned, so a GetIP returns the address of the latest completed
\* AssignIP or RemoveVM; and between operations the map is the one those
\* operations leave when called one after the other.
C30_Serialized ==
    [][/\ Cardinality({k \in DBCallers : callers'[k].pc = "wait"}) <= 1
       /\ handler'.at \in {"run", "respond"} => callers'[handler'.k].pc = "wait"
       /\ handler'.at = "select" => VMToIP' = committed'
       /\ DBRun =>
             LET op == callers[handler.k].op
                 r == SeqResult(committed, op)
             IN  /\ VMToIP' = SeqMap(committed, op)
                 /\ handler'.result.ip = r.ip
                 /\ handler'.result.exists = r.exists
                 /\ handler'.result.ips = r.ips]_vars

\* C30 witness: a GetIP of caller 1 is returning the address that caller
\* 2's AssignIP stored, while caller 2 is blocked handing over its next
\* operation
C30_Witness ==
    /\ handler.at = "respond"
    /\ handler.k = 1
    /\ callers[1].op.name = "GetIP"
    /\ handler.result.exists
    /\ handler.result.ip = "10.0.0.2"
    /\ callers[2].pc = "send"
    /\ callers[2].op.name = "RemoveVM"

\* C39: every operation that is called returns to its caller, also when it
\* is called after Close or while Close is called: no caller is left at
\* its send on db.opChan, or at its receive of the result, with
\* handleOperations gone.
C39_NoCallerStranded ==
    handler.at = "exited" => \A k \in DBCallers : callers[k].pc = "idle"

\* C40: the map in memory and the file agree after every write: when
\* AssignIP, RemoveVM or Cleanup returns the error of save, the map is as
\* it was before the call; when it returns nil, the file holds the map.
C40_MapMatchesFile ==
    [][(DBRun /\ callers[handler.k].op.name \in {"AssignIP", "RemoveVM", "Cleanup"}) =>
          IF handler'.result.err
          THEN VMToIP' = VMToIP
          ELSE dbFile' = VMToIP']_vars

----------------------------------------------------------------------------
(* Shutdown: main starts every server's Start on a goroutine of its own,   *)
(* waits for the signal, cancels the context, stops every server and waits *)
(* for the Start goroutines                                                *)

\* the context a handler passes to the vsphere Client: processIPMICommand
\* passes the one it was given, the handlers of package bmc make their own
handlerCtx(h) == IF h = "raw" THEN "process" ELSE "background"

\* main has created the servers and the goroutines that will run Start, and
\* waits for the signal
ShutInit ==
    /\ hsrc \in {"raw", "bmc"}
    /\ ctxDone = FALSE
    /\ sconn = [i \in Instances |-> "nil"]
    /\ socket = [i \in Instances |-> "none"]
    /\ startT = [i \in Instances |-> "ready"]
    /\ loopT = [i \in Instances |-> "none"]
    /\ hcalls = << >>
    /\ mainT = [pc |-> "signal", i |-> 1]

\* Server.Start: net.ListenUDP; its error ends Start, and the goroutine
ShutListen(i) ==
    /\ startT[i] = "ready"
    /\ \E ok \in BOOLEAN :
          IF ok
          THEN /\ socket' = [socket EXCEPT ![i] = "open"]
               /\ startT' = [startT EXCEPT ![i] = "listened"]
          ELSE /\ startT' = [startT EXCEPT ![i] = "returned"]
               /\ UNCHANGED socket
    /\ UNCHANGED <<hsrc, ctxDone, sconn, loopT, hcalls, mainT>>
    /\ UNCHANGED notShut

\* Server.Start: s.conn = conn
ShutAssign(i) ==
    /\ startT[i] = "listened"
    /\ sconn' = [sconn EXCEPT ![i] = "conn"]
    /\ startT' = [startT EXCEPT ![i] = "assigned"]
    /\ UNCHANGED <<hsrc, ctxDone, socket, loopT, hcalls, mainT>>
    /\ UNCHANGED notShut

\* Server.Start: go s.handleConnections(ctx); return nil, and wg.Done
ShutSpawn(i) ==
    /\ startT[i] = "assigned"
    /\ loopT' = [loopT EXCEPT ![i] = "select"]
    /\ startT' = [startT EXCEPT ![i] = "returned"]
    /\ UNCHANGED <<hsrc, ctxDone, sconn, socket, hcalls, mainT>>
    /\ UNCHANGED notShut

\* a handleConnections whose select never takes <-ctx.Done()
ShutSelect_noDone(i) ==
    /\ loopT[i] = "select"
    /\ loopT' = [loopT EXCEPT ![i] = "read"]
    /\ UNCHANGED <<hsrc, ctxDone, sconn, socket, startT, hcalls, mainT>>
    /\ UNCHANGED notShut

\* handleConnections: select: <-ctx.Done() returns, default goes on to read
ShutSelect(i) ==
    /\ loopT[i] = "select"
    /\ loopT' = [loopT EXCEPT ![i] = IF ctxDone THEN "returned" ELSE "read"]
    /\ UNCHANGED <<hsrc, ctxDone, sconn, socket, startT, hcalls, mainT>>
    /\ UNCHANGED notShut

\* handleConnections: ReadFromUDP on the closed socket returns an error,
\* which is logged; continue
ShutReadError(i) ==
    /\ loopT[i] = "read"
    /\ socket[i] = "closed"
    /\ loopT' = [loopT EXCEPT ![i] = "select"]
    /\ UNCHANGED <<hsrc, ctxDone, sconn, socket, startT, hcalls, mainT>>
    /\ UNCHANGED notShut

\* handleConnections: ReadFromUDP returns a datagram and the handler is
\* started on a goroutine, where it gets as far as a call of the vsphere
\* Client, or answers without one
ShutReceive(i) ==
    /\ loopT[i] = "read"
    /\ socket[i] = "open"
    /\ Len(hcalls) < MaxDatagrams
    /\ \E calls \in BOOLEAN :
          hcalls' = Append(hcalls,
                           [inst |-> i,
                            state |-> IF calls THEN "inflight" ELSE "done",
                            ctx |-> IF calls THEN handlerCtx(hsrc) ELSE "none"])
    /\ loopT' = [loopT EXCEPT ![i] = "select"]
    /\ UNCHANGED <<hsrc, ctxDone, sconn, socket, startT, mainT>>
    /\ UNCHANGED notShut

\* a call of the vsphere Client runs to completion
ShutCallReturn(n) ==
    /\ n \in DOMAIN hcalls
    /\ hcalls[n].state = "inflight"
    /\ hcalls' = [hcalls EXCEPT ![n].state = "done"]
    /\ UNCHANGED <<hsrc, ctxDone, sconn, socket, startT, loopT, mainT>>
    /\ UNCHANGED notShut

\* a call of the vsphere Client returns its context's error
ShutCallAbort(n) ==
    /\ n \in DOMAIN hcalls
    /\ hcalls[n].state = "inflight"
    /\ hcalls[n].ctx = "process"
    /\ ctxDone
    /\ hcalls' = [hcalls EXCEPT ![n].state = "cancelled"]
    /\ UNCHANGED <<hsrc, ctxDone, sconn, socket, startT, loopT, mainT>>
    /\ UNCHANGED notShut

\* main: <-sigChan; cancel()
ShutCancel ==
    /\ mainT.pc = "signal"
    /\ ctxDone' = TRUE
    /\ mainT' = [pc |-> "stop", i |-> 1]
    /\ UNCHANGED <<hsrc, sconn, socket, startT, loopT, hcalls>>
    /\ UNCHANGED notShut

\* main: server.Stop() of the next server: if s.conn != nil, s.conn.Close()
ShutStop ==
    /\ mainT.pc = "stop"
    /\ socket' = IF sconn[mainT.i] # "nil"
                 THEN [socket EXCEPT ![mainT.i] = "closed"]
                 ELSE socket
    /\ mainT' = IF mainT.i + 1 \in Instances
                THEN [mainT EXCEPT !.i = mainT.i + 1]
                ELSE [mainT EXCEPT !.pc = "wait"]
    /\ UNCHANGED <<hsrc, ctxDone, sconn, startT, loopT, hcalls>>
    /\ UNCHANGED notShut

\* main: wg.Wait() returns once every Start goroutine has; "Shutdown complete"
ShutWait ==
    /\ mainT.pc = "wait"
    /\ \A i \in Instances : startT[i] = "returned"
    /\ mainT' = [mainT EXCEPT !.pc = "complete"]
    /\ UNCHANGED <<hsrc, ctxDone, sconn, socket, startT, loopT, hcalls>>
    /\ UNCHANGED notShut

ShutListenStep == \E i \in Instances : ShutListen(i)

ShutAssignStep == \E i \in Instances : ShutAssign(i)

ShutSpawnStep == \E i \in Instances : ShutSpawn(i)

ShutSelectStep == \E i \in Instances : ShutSelect(i)

ShutReadErrorStep == \E i \in Instances : ShutReadError(i)

ShutReceiveStep == \E i \in Instances : ShutReceive(i)

ShutCallReturnStep == \E n \in 1..MaxDatagrams : ShutCallReturn(n)

ShutCallAbortStep == \E n \in 1..MaxDatagrams : ShutCallAbort(n)

ShutNext ==
    \/ ShutListenStep
    \/ ShutAssignStep
    \/ ShutSpawnStep
    \/ ShutSelectStep
    \/ ShutReadErrorStep
    \/ ShutReceiveStep
    \/ ShutCallReturnStep
    \/ ShutCallAbortStep
    \/ ShutCancel
    \/ ShutStop
    \/ ShutWait

\* the goroutines that are runnable get to run: those of Start, the receive
\* loop at its select and at a read that has failed, and main once the
\* signal has come.  Neither the signal nor a datagram has to come.
ShutFairness ==
    /\ \A i \in Instances :
          /\ WF_vars(ShutListen(i))
          /\ WF_vars(ShutAssign(i))
          /\ WF_vars(ShutSpawn(i))
          /\ WF_vars(ShutSelect(i))
          /\ WF_vars(ShutReadError(i))
    /\ WF_vars(ShutStop)
    /\ WF_vars(ShutWait)

ShutIdle ==
    /\ hsrc = "raw"
    /\ ctxDone = FALSE
    /\ sconn = [i \in Instances |-> "nil"]
    /\ socket = [i \in Instances |-> "none"]
    /\ startT = [i \in Instances |-> "ready"]
    /\ loopT = [i \in Instances |-> "none"]
    /\ hcalls = << >>
    /\ mainT = [pc |-> "signal", i |-> 1]

\* C22: Stop is safe against a concurrent Start and receive: once main has
\* reached "Shutdown complete", no instance has a socket left open.  (The
\* raw server configures no address, so none is left.)
C22_NothingLeaks ==
    mainT.pc = "complete" => \A i \in Instances : socket[i] # "open"

\* C23: after the shutdown signal, cancel() followed by Stop of every
\* server, every Start goroutine and every receive loop has ended for good
\* at some point
ShutdownSignalled == ctxDone /\ mainT.pc \in {"wait", "complete"}

LoopsEnded ==
    \A i \in Instances :
        startT[i] = "returned" /\ loopT[i] \in {"none", "returned"}

C23_LoopsTerminate == ShutdownSignalled ~> [](LoopsEnded)

\* C23 witness: shutdown is complete, and the loop of instance 1, which had
\* started a handler, has returned after its socket was closed
C23_Witness ==
    /\ mainT.pc = "complete"
    /\ loopT[1] = "returned"
    /\ socket[1] = "closed"
    /\ \E n \in DOMAIN hcalls : hcalls[n].inst = 1

\* C25: every call of the vsphere Client that a handler has in flight is
\* bound to the process context: once that is cancelled, the call can
\* return the cancellation
C25_CallsBound ==
    \A n \in DOMAIN hcalls :
        (hcalls[n].state = "inflight" /\ ctxDone) => ENABLED ShutCallAbort(n)

----------------------------------------------------------------------------
(* Server.configureIP and Server.cleanupIP on the text that `ip addr show` *)
(* prints for the interface                                                *)

DigitChars == <<"0", "1", "2", "3", "4", "5", "6", "7", "8", "9">>

RECURSIVE Decimal(_)
\* a number in decimal
Decimal(n) ==
    IF n < 10 THEN <<DigitChars[n + 1]>>
    ELSE Append(Decimal(n \div 10), DigitChars[(n % 10) + 1])

\* net.IP.String() of an IPv4 address
ipString(ip) ==
    Decimal(ip[1]) \o <<".">> \o Decimal(ip[2]) \o <<".">>
        \o Decimal(ip[3]) \o <<".">> \o Decimal(ip[4])

\* strings.Contains
Contains(s, substr) ==
    \E i \in 0..(Len(s) - Len(substr)) : SubSeq(s, i + 1, i + Len(substr)) = substr

\* the line `ip addr show` prints for one address
ShowLine(a) == <<"i", "n", "e", "t", " ">> \o ipString(a) \o <<"/", "2", "4", " ">>

RECURSIVE ShowOutput(_)
\* what `ip addr show dev <nic>` prints for the addresses on the interface
ShowOutput(addrs) ==
    IF addrs = {} THEN << >>
    ELSE LET a == CHOOSE x \in addrs : \A y \in addrs : IPNum(x) <= IPNum(y)
         IN  ShowLine(a) \o ShowOutput(addrs \ {a})

\* s.ip of the Server
OwnIP == <<10, 0, 0, 1>>

\* the addresses an interface may carry: the Server's own and three others
IfAddresses == {OwnIP, <<10, 0, 0, 10>>, <<110, 0, 0, 1>>, <<10, 0, 0, 2>>}

NoIfCall == [op |-> "none", err |-> "none", found |-> FALSE, added |-> FALSE]

NicInit ==
    /\ ifName \in {"", "eth0"}
    /\ ifAddrs \in SUBSET IfAddresses
    /\ ifBefore = ifAddrs
    /\ ifUp = FALSE
    /\ ifLast = NoIfCall

\* Server.Start: configureIP on the output of `ip addr show`, then the
\* simulator and its Run
NicStart ==
    /\ ~ifUp
    /\ \E checkOK \in BOOLEAN, addOK \in BOOLEAN, runOK \in BOOLEAN :
          LET found == Contains(ShowOutput(ifAddrs), ipString(OwnIP))
              c == configureIP(ifName, found, checkOK, addOK)
          IN  /\ ifAddrs' = IF c.added THEN ifAddrs \cup {OwnIP} ELSE ifAddrs
              /\ ifUp' = (~c.err /\ runOK)
              /\ ifLast' = [op |-> "Start",
                            err |-> IF c.err THEN "configure"
                                    ELSE IF runOK THEN "none" ELSE "start",
                            found |-> (ifName # "" /\ checkOK /\ found),
                            added |-> c.added]
    /\ ifBefore' = ifAddrs
    /\ UNCHANGED ifName
    /\ UNCHANGED notNic

\* Server.Stop: the simulator's Stop, then cleanupIP; `ip addr del` fails
\* for an address the interface does not carry
NicStop ==
    /\ ifLast.op = "Start"
    /\ \E delOK \in (IF OwnIP \in ifAddrs THEN BOOLEAN ELSE {FALSE}) :
          LET c == cleanupIP(ifName, OwnIP \in ifAddrs, delOK)
          IN  /\ ifAddrs' = IF c.present THEN ifAddrs ELSE ifAddrs \ {OwnIP}
              /\ ifLast' = [op |-> "Stop",
                            err |-> IF c.err THEN "cleanup" ELSE "none",
                            found |-> ifLast.found, added |-> ifLast.added]
    /\ ifUp' = FALSE
    /\ UNCHANGED <<ifName, ifBefore>>
    /\ UNCHANGED notNic

NicNext == NicStart \/ NicStop

NicIdle ==
    /\ ifName = ""
    /\ ifAddrs = {}
    /\ ifBefore = {}
    /\ ifUp = FALSE
    /\ ifLast = NoIfCall

\* C33: address configuration at Start is idempotent: when the
\* configuration step succeeds, the address was added if and only if the
\* interface did not carry it, an interface that carried it is left as it
\* was, and the address is on the interface afterwards.
C33_ConfigureIdempotent ==
    [][(NicStart /\ ifLast'.err # "configure") =>
          /\ ifLast'.added <=> OwnIP \notin ifAddrs
          /\ OwnIP \in ifAddrs => ifAddrs' = ifAddrs
          /\ OwnIP \in ifAddrs']_vars

\* C34: Stop removes only an address this instance added: when the
\* interface carried the address before Start, so that configuration was
\* skipped, Stop leaves the interface with the addresses it had before
\* Start.
C34_StopKeepsForeign ==
    [][(NicStop /\ OwnIP \in ifBefore /\ ifLast.err # "configure" /\ ifLast.found) =>
          ifAddrs' = ifBefore]_vars

----------------------------------------------------------------------------
(* Specifications *)

InitCodec == CodecInit /\ SimIdle /\ RawIdle /\ SrvIdle /\ FleetIdle /\ PairIdle /\ LanIdle /\ DBIdle /\ ShutIdle /\ NicIdle

SpecCodec == InitCodec /\ [][CodecNext]_vars

InitSim == SimInit /\ CodecIdle /\ RawIdle /\ SrvIdle /\ FleetIdle /\ PairIdle /\ LanIdle /\ DBIdle /\ ShutIdle /\ NicIdle

SpecSim == InitSim /\ [][SimNext]_vars

InitUsers == SimInit /\ CodecIdle /\ RawIdle /\ SrvIdle /\ FleetIdle /\ PairIdle /\ LanIdle /\ DBIdle /\ ShutIdle /\ NicIdle

SpecUsers == InitUsers /\ [][UsersNext]_vars

InitRaw == RawInit /\ CodecIdle /\ SimIdle /\ SrvIdle /\ FleetIdle /\ PairIdle /\ LanIdle /\ DBIdle /\ ShutIdle /\ NicIdle

SpecRaw == InitRaw /\ [][RawNext]_vars

InitSrv == SrvInit /\ CodecIdle /\ SimIdle /\ RawIdle /\ FleetIdle /\ PairIdle /\ LanIdle /\ DBIdle /\ ShutIdle /\ NicIdle

SpecSrv == InitSrv /\ [][SrvNext]_vars

InitFleet == FleetInit /\ CodecIdle /\ SimIdle /\ RawIdle /\ SrvIdle /\ PairIdle /\ LanIdle /\ DBIdle /\ ShutIdle /\ NicIdle

SpecFleet == InitFleet /\ [][FleetNext]_vars

InitPair == PairInit /\ CodecIdle /\ SimIdle /\ RawIdle /\ SrvIdle /\ FleetIdle /\ LanIdle /\ DBIdle /\ ShutIdle /\ NicIdle

SpecPair == InitPair /\ [][PairNext]_vars

InitLan == LanInit /\ CodecIdle /\ SimIdle /\ RawIdle /\ SrvIdle /\ FleetIdle /\ PairIdle /\ DBIdle /\ ShutIdle /\ NicIdle

SpecLan == InitLan /\ [][LanNext]_vars

InitClient == ClientInit /\ CodecIdle /\ SimIdle /\ RawIdle /\ SrvIdle /\ FleetIdle /\ PairIdle /\ DBIdle /\ ShutIdle /\ NicIdle

SpecClient == InitClient /\ [][LanNext]_vars

InitDB == DBInit /\ CodecIdle /\ SimIdle /\ RawIdle /\ SrvIdle /\ FleetIdle /\ PairIdle /\ LanIdle /\ ShutIdle /\ NicIdle

SpecDB == InitDB /\ [][DBNext]_vars

InitShut == ShutInit /\ CodecIdle /\ SimIdle /\ RawIdle /\ SrvIdle /\ FleetIdle /\ PairIdle /\ LanIdle /\ DBIdle /\ NicIdle

SpecShut == InitShut /\ [][ShutNext]_vars

SpecShutFair == InitShut /\ [][ShutNext]_vars /\ ShutFairness

InitNic == NicInit /\ CodecIdle /\ SimIdle /\ RawIdle /\ SrvIdle /\ FleetIdle /\ PairIdle /\ LanIdle /\ DBIdle /\ ShutIdle

SpecNic == InitNic /\ [][NicNext]_vars

============================================================================
